---- MODULE Spec2Model ----
(***************************************************************************)
(* A model of the off-chain decision layer of oracle-core:                 *)
(*   - the refresh action (core/src/pool_commands/refresh.rs):             *)
(*     epoch/height filter, outlier removal, quorum check, pool rate,      *)
(*     reward bookkeeping and transaction assembly;                        *)
(*   - the update-pool vote tally and transaction                          *)
(*     (core/src/cli_commands/update_pool.rs);                             *)
(*   - the paged wallet queries (core/src/node_interface/node_api.rs);     *)
(*   - the pool box on the chain, over a sequence of commands.             *)
(*                                                                         *)
(* Boxes are records.  An oracle box is identified by its owner public key *)
(* (one oracle token, hence one box, per oracle).  A panic of the Rust     *)
(* code (unwrap on None/Err, division by zero) is the result "Panic".      *)
(***************************************************************************)
EXTENDS Integers, Sequences, FiniteSets, TLC

VARIABLES
    pc,                      \* position inside the running command
    posted,                  \* datapoint_src.get_posted_datapoint_boxes()
    in_pool_box,             \* pool_box_source.get_pool_box()
    deviation_range,         \* max_deviation_percent
    min_data_points,         \* MinDatapoints
    my_oracle_pk,            \* public key of oracle_address
    in_oracle_boxes,         \* posted boxes after the epoch/height filter, sorted
    oracle_rates,            \* argument of filtered_oracle_boxes_by_rate
    successful_boxes,        \* working set of the outlier loop
    valid_in_oracle_boxes,   \* survivors
    buyback,                 \* get_buyback_box(): whether a box, and its reward tokens
    wallet,                  \* outcome of the wallet query / box selection
    ballot_boxes,            \* ballot_boxes.get_ballot_boxes()
    min_votes,               \* update_box.min_votes()
    new_reward_tokens,       \* Option<SpecToken<RewardTokenId>>
    vote_ballot_boxes,       \* the ballot boxes voting for the proposal
    votes_cast,              \* their summed ballot tokens
    result,                  \* what the command returned
    wallet_call,             \* which wallet query is running, and its arguments
    node_pages,              \* the node's answers to unspent_boxes_by_address, by page
    offset,                  \* offset of the next page to ask for
    unspent_boxes,           \* the boxes gathered over the pages
    selection,               \* Option<Result<BoxSelection, BoxSelectorError>>
    returned,                \* what the wallet query returned
    utxo,                    \* the unspent boxes holding the pool NFT, as the node lists them
    rounds,                  \* commands run against the chain so far
    command,                 \* the command running against the chain
    oracle_utxo,             \* the unspent boxes holding an oracle token
    folded,                  \* the posted boxes the applied refreshes collected
    fetch_results,           \* join_all over the fetchers' futures
    indexer,                 \* the node's indexer: indexed and full height
    indexer_status,          \* the answer of node.indexer_status()
    slept,                   \* seconds slept in the wait loop, modulo MaxSlept
    cli_command,             \* the command line command that is running
    stdin_line,              \* what read_line put into `input`
    submitted,               \* calls of submit_transaction so far
    local_datapoint_box,     \* get_local_oracle_datapoint_box()
    rewards_destination,     \* kind of the destination address
    datapoint,               \* datapoint_source.get_datapoint()
    new_epoch_counter,       \* epoch counter given to publish
    reward_token_id,         \* the configured reward token id
    oracle_token_id,         \* the configured oracle token id
    new_pool_config,         \* the file named by new_pool_config_file
    current_pool_config      \* the file at current_pool_config_path

\* the variables of the wallet query, and of the chain
walletVars == << wallet_call, node_pages, offset, unspent_boxes, selection, returned >>
chainVars == << utxo, rounds, command >>
\* the oracle boxes on the chain, and the variables of the other commands
ledgerVars == << oracle_utxo, folded >>
cliVars == << fetch_results, indexer, indexer_status, slept, cli_command, stdin_line,
             submitted, local_datapoint_box, rewards_destination, datapoint,
             new_epoch_counter, reward_token_id, oracle_token_id, new_pool_config,
             current_pool_config >>

vars == << pc, posted, in_pool_box, deviation_range, min_data_points, my_oracle_pk,
           in_oracle_boxes, oracle_rates, successful_boxes, valid_in_oracle_boxes,
           buyback, wallet, ballot_boxes, min_votes, new_reward_tokens,
           vote_ballot_boxes, votes_cast, result, walletVars, chainVars, ledgerVars,
           cliVars >>

(***************************************************************************)
(* Bounds of the model.                                                    *)
(***************************************************************************)
\* most posted oracle boxes handed to one refresh
MaxBoxes == 3
\* longest rate list handed to filtered_oracle_boxes_by_rate on its own
MaxRates == 4
\* most ballot boxes handed to one update-pool tally
MaxBallots == 3

\* datapoints: a negative one, and a pair more than any deviation bound apart
Rates == {-2, 1, 100}
\* max_deviation_percent is a u32: the test's 5, and one above 100
Deviations == {5, 300}

(***************************************************************************)
(* Integer helpers.                                                        *)
(***************************************************************************)
\* Rust's `/` on i64: the quotient truncated toward zero (b > 0)
TruncDiv(a, b) == IF a >= 0 THEN a \div b ELSE -((-a) \div b)

RECURSIVE SeqSum(_)
SeqSum(s) == IF s = << >> THEN 0 ELSE Head(s) + SeqSum(Tail(s))

RECURSIVE SeqMin(_)
SeqMin(s) == IF Len(s) = 1 THEN s[1]
             ELSE LET m == SeqMin(Tail(s)) IN IF s[1] <= m THEN s[1] ELSE m

RECURSIVE SeqMax(_)
SeqMax(s) == IF Len(s) = 1 THEN s[1]
             ELSE LET m == SeqMax(Tail(s)) IN IF s[1] >= m THEN s[1] ELSE m

SeqsUpTo(S, n) == UNION { [1..k -> S] : k \in 0..n }

Count(s, v) == Cardinality({ i \in DOMAIN s : s[i] = v })

(***************************************************************************)
(* refresh.rs: the outlier filter.                                         *)
(***************************************************************************)
deviation_check_no_percent(max_deviation_range, datapoint_boxes) ==
    LET min_datapoint == SeqMin(datapoint_boxes)
        max_datapoint == SeqMax(datapoint_boxes)
        deviation_delta == max_datapoint * max_deviation_range
    IN  max_datapoint - min_datapoint <= deviation_delta

\* fn deviation_check: only called on a non-empty list (min()/max() unwrap)
deviation_check(max_deviation_range, datapoint_boxes) ==
    LET min_datapoint == SeqMin(datapoint_boxes)
        max_datapoint == SeqMax(datapoint_boxes)
        deviation_delta == TruncDiv(max_datapoint * max_deviation_range, 100)
    IN  max_datapoint - min_datapoint <= deviation_delta

remove_guard_lt2(datapoint_boxes) == Len(datapoint_boxes) < 2

\* the guard of remove_largest_local_deviation_datapoint: too few to remove from
remove_guard(datapoint_boxes) == Len(datapoint_boxes) <= 2

\* fn remove_largest_local_deviation_datapoint, the else branch.  The mean and
\* the two deviations are f32 in the code; for datapoints of magnitude below
\* 2^24 the comparison front_deviation >= back_deviation is exact, and is
\* taken here on both sides multiplied by the length.  The filter keeps every
\* datapoint different from the chosen extreme, so it drops all its copies.
remove_largest_local_deviation_datapoint(datapoint_boxes) ==
    LET n == Len(datapoint_boxes)
        sum == SeqSum(datapoint_boxes)
        min_datapoint == SeqMin(datapoint_boxes)
        max_datapoint == SeqMax(datapoint_boxes)
        front_deviation == n * max_datapoint - sum
        back_deviation == sum - n * min_datapoint
    IN  IF front_deviation >= back_deviation
        THEN SelectSeq(datapoint_boxes, LAMBDA dp : dp # max_datapoint)
        ELSE SelectSeq(datapoint_boxes, LAMBDA dp : dp # min_datapoint)

NoResult == [status |-> "none"]

\* Option<SpecToken>::None, and a token
NoToken == [id |-> "none", amount |-> 0]
Token(id, amount) == [id |-> id, amount |-> amount]

\* Option::None of selection, and no wallet query running
NoSelection == [state |-> "None", boxes |-> << >>]
NoCall == [fn |-> "none", target_balance |-> 0, target_tokens |-> NoToken,
           filter_boxes_token_ids |-> {}]

\* no wallet query is running
WalletIdle ==
    /\ wallet_call = NoCall
    /\ node_pages = << >>
    /\ offset = 0
    /\ unspent_boxes = << >>
    /\ selection = NoSelection
    /\ returned = NoResult

\* the chain is not looked at
ChainIdle ==
    /\ utxo = << >>
    /\ rounds = 0
    /\ command = "none"
    /\ oracle_utxo = << >>
    /\ folded = << >>

\* Option::None of the local oracle box, a datapoint not fetched, and no
\* pool configuration
NoLocalBox == [kind |-> "None"]
NoDatapoint == [state |-> "none", value |-> 0]
NoStatus == [state |-> "none", is_sync |-> FALSE]
NoConfig == [state |-> "none", oracle_token_id |-> "none", reward_token_id |-> "none"]
\* `input` before read_line
NoLine == [state |-> "none", chars |-> << >>]

\* no other command is running
CliIdle ==
    /\ fetch_results = << >>
    /\ indexer = [indexed_height |-> 0, full_height |-> 0]
    /\ indexer_status = NoStatus
    /\ slept = 0
    /\ cli_command = "none"
    /\ stdin_line = NoLine
    /\ submitted = 0
    /\ local_datapoint_box = NoLocalBox
    /\ rewards_destination = "none"
    /\ datapoint = NoDatapoint
    /\ new_epoch_counter = 0
    /\ reward_token_id = "none"
    /\ oracle_token_id = "none"
    /\ new_pool_config = NoConfig
    /\ current_pool_config = NoConfig

\* filtered_oracle_boxes_by_rate, lines 234-241: an empty list is returned at once
FilterEnter ==
    /\ pc = "filter"
    /\ IF oracle_rates = << >>
       THEN /\ pc' = "filtered"
            /\ successful_boxes' = << >>
       ELSE /\ pc' = "loop"
            /\ successful_boxes' = oracle_rates
    /\ UNCHANGED << posted, in_pool_box, deviation_range, min_data_points, my_oracle_pk,
                    in_oracle_boxes, oracle_rates, valid_in_oracle_boxes, buyback, wallet,
                    ballot_boxes, min_votes, new_reward_tokens, vote_ballot_boxes,
                    votes_cast, result >>
    /\ UNCHANGED << walletVars, chainVars, ledgerVars, cliVars >>

\* one evaluation of the while condition and, if it fails, of the loop body
LoopIter ==
    /\ pc = "loop"
    /\ IF successful_boxes = << >>
       THEN \* deviation_check unwraps min() of an empty list
            /\ pc' = "done"
            /\ result' = [status |-> "Panic"]
            /\ UNCHANGED successful_boxes
       ELSE IF deviation_check(deviation_range, successful_boxes)
       THEN /\ pc' = "filtered"
            /\ UNCHANGED << successful_boxes, result >>
       ELSE IF remove_guard(successful_boxes)
       THEN /\ pc' = "done"
            /\ result' = [status |-> "NotEnoughDatapoints"]
            /\ UNCHANGED successful_boxes
       ELSE /\ successful_boxes' = remove_largest_local_deviation_datapoint(successful_boxes)
            /\ UNCHANGED << pc, result >>
    /\ UNCHANGED << posted, in_pool_box, deviation_range, min_data_points, my_oracle_pk,
                    in_oracle_boxes, oracle_rates, valid_in_oracle_boxes, buyback, wallet,
                    ballot_boxes, min_votes, new_reward_tokens, vote_ballot_boxes,
                    votes_cast >>
    /\ UNCHANGED << walletVars, chainVars, ledgerVars, cliVars >>

(***************************************************************************)
(* refresh.rs: build_refresh_action.                                       *)
(***************************************************************************)
\* the chain height the action is built at, the refresh contract's epoch
\* length and the pool box's epoch counter
Height == 10
EpochLen == 4
PoolEpoch == 1

\* a posted box is of the pool's epoch and fresh, or stale by one block, or of
\* the next epoch
Origins == { [epoch_counter |-> PoolEpoch, creation_height |-> Height - EpochLen + 1],
             [epoch_counter |-> PoolEpoch, creation_height |-> Height - EpochLen],
             [epoch_counter |-> PoolEpoch + 1, creation_height |-> Height - EpochLen + 1] }

\* the i-th posted box is owned by public key i, holds one oracle token and i
\* reward tokens, and is worth 10 + i
PostedBox(i, rate, origin) ==
    [pk |-> i, rate |-> rate, epoch_counter |-> origin.epoch_counter,
     creation_height |-> origin.creation_height, reward |-> i,
     oracle_token |-> Token("oracle_token", 1), value |-> 10 + i]

\* the pool boxes pool_box_source.get_pool_box() may return, by their reward tokens
PoolBoxes(rates, rewards) ==
    [epoch_counter : {PoolEpoch}, rate : rates, reward : rewards,
     nft : {Token("pool_nft", 1)}, value : {3}, contract : {"pool_contract"}]

\* refresh_box_source.get_refresh_box()
InRefreshBox == [nft |-> Token("refresh_nft", 1), value |-> 4]

PostedLists ==
    UNION { { [i \in 1..k |-> PostedBox(i, rs[i], os[i])] :
                rs \in [1..k -> Rates], os \in [1..k -> Origins] } : k \in 0..MaxBoxes }

\* reward tokens in the pool box: too few for MaxBoxes survivors, or plenty
PoolRewards == { 2 * MaxBoxes, 2 * MaxBoxes + 100 }
MinDatapointsSet == {1, 3}
MyPks == {1, 2}
\* get_buyback_box(): no source or no box, a failing source, or a box holding
\* this many reward tokens
NoBuyback == [source |-> "none", reward |-> 0]
Buybacks == { NoBuyback, [source |-> "error", reward |-> 0] }
            \cup { [source |-> "box", reward |-> r] : r \in {0, 1, 5} }
Wallets == { "funded", "empty", "error", "panic" }

Rate(s) == [i \in DOMAIN s |-> s[i].rate]
Pks(s) == [i \in DOMAIN s |-> s[i].pk]
Elems(s) == { s[i] : i \in DOMAIN s }

epoch_filter_ge(b, min_start_height, epoch_id) ==
    b.creation_height >= min_start_height /\ b.epoch_counter = epoch_id

\* the closure of lines 88-91
epoch_filter(b, min_start_height, epoch_id) ==
    b.creation_height > min_start_height /\ b.epoch_counter = epoch_id

\* Vec::sort_by_key(|b| b.rate()): a stable sort
RECURSIVE InsertByRate(_, _)
InsertByRate(s, b) ==
    IF s = << >> THEN << b >>
    ELSE IF s[Len(s)].rate <= b.rate THEN Append(s, b)
    ELSE Append(InsertByRate(SubSeq(s, 1, Len(s) - 1), b), s[Len(s)])

RECURSIVE SortByRate(_)
SortByRate(s) ==
    IF s = << >> THEN << >>
    ELSE InsertByRate(SortByRate(SubSeq(s, 1, Len(s) - 1)), s[Len(s)])

calc_pool_rate_floor(oracle_boxes_rates) ==
    SeqSum(oracle_boxes_rates) \div Len(oracle_boxes_rates)

\* fn calc_pool_rate: i64 division, on a non-empty list
calc_pool_rate(oracle_boxes_rates) ==
    TruncDiv(SeqSum(oracle_boxes_rates), Len(oracle_boxes_rates))

FailedToReachConsensus_all(valid, expected) ==
    [status |-> "FailedToReachConsensus", found_num |-> Len(in_oracle_boxes),
     expected |-> expected, found_public_keys |-> Pks(valid)]

\* the error of lines 104-111
FailedToReachConsensus(valid, expected) ==
    [status |-> "FailedToReachConsensus", found_num |-> Len(valid),
     expected |-> expected, found_public_keys |-> Pks(valid)]

\* lines 81, 82 and 86: a box source fails
SourceError ==
    /\ pc = "start"
    /\ pc' = "done"
    /\ result' = [status |-> "DataSourceError"]
    /\ UNCHANGED << posted, in_pool_box, deviation_range, min_data_points, my_oracle_pk,
                    in_oracle_boxes, oracle_rates, successful_boxes, valid_in_oracle_boxes,
                    buyback, wallet, ballot_boxes, min_votes, new_reward_tokens,
                    vote_ballot_boxes, votes_cast >>
    /\ UNCHANGED << walletVars, chainVars, ledgerVars, cliVars >>

\* lines 83-98: the epoch/height filter, the sort, and the call of the filter
FilterAndSort ==
    /\ pc = "start"
    /\ LET min_start_height == Height - EpochLen
           in_pool_box_epoch_id == in_pool_box.epoch_counter
           kept == SelectSeq(posted,
                     LAMBDA b : epoch_filter(b, min_start_height, in_pool_box_epoch_id))
       IN  /\ in_oracle_boxes' = SortByRate(kept)
           /\ oracle_rates' = Rate(SortByRate(kept))
    /\ pc' = "filter"
    /\ UNCHANGED << posted, in_pool_box, deviation_range, min_data_points, my_oracle_pk,
                    successful_boxes, valid_in_oracle_boxes, buyback, wallet,
                    ballot_boxes, min_votes, new_reward_tokens, vote_ballot_boxes,
                    votes_cast, result >>
    /\ UNCHANGED << walletVars, chainVars, ledgerVars, cliVars >>

\* lines 99-112: the survivors and the quorum check
Consensus ==
    /\ pc = "filtered"
    /\ LET valid == SelectSeq(in_oracle_boxes,
                              LAMBDA b : b.rate \in Elems(successful_boxes))
       IN  /\ valid_in_oracle_boxes' = valid
           /\ IF Len(valid) < min_data_points
              THEN /\ pc' = "done"
                   /\ result' = FailedToReachConsensus(valid, min_data_points)
              ELSE /\ pc' = "assemble"
                   /\ UNCHANGED result
    /\ UNCHANGED << posted, in_pool_box, deviation_range, min_data_points, my_oracle_pk,
                    in_oracle_boxes, oracle_rates, successful_boxes, buyback, wallet,
                    ballot_boxes, min_votes, new_reward_tokens, vote_ballot_boxes,
                    votes_cast >>
    /\ UNCHANGED << walletVars, chainVars, ledgerVars, cliVars >>

\* a box of a transaction: its singleton token (pool, refresh or buyback NFT,
\* oracle token), its value, and the registers and reward tokens of its kind;
\* the fields a kind does not have are 0
Box(kind, nft, value, pk, reward, rate, epoch_counter) ==
    [kind |-> kind, nft |-> nft, value |-> value, pk |-> pk, reward |-> reward,
     rate |-> rate, epoch_counter |-> epoch_counter]

\* the context extension of an input: no value, or the value v under key 0
NoCtx == << >>
Ctx(v) == << v >>

TokenAmountOk_any(n) == TRUE

\* TokenAmount holds 1..=i64::MAX: checked_sub, checked_add and try_into fail
\* below 1
TokenAmountOk(n) == n >= 1

build_out_pool_box_same_epoch(pool_box, rate, reward_decrement, buyback_reward) ==
    Box("pool", pool_box.nft, pool_box.value, 0,
        pool_box.reward - reward_decrement + buyback_reward, rate,
        pool_box.epoch_counter)

\* fn build_out_pool_box; buyback_reward is 0 for None
build_out_pool_box(pool_box, rate, reward_decrement, buyback_reward) ==
    Box("pool", pool_box.nft, pool_box.value, 0,
        pool_box.reward - reward_decrement + buyback_reward, rate,
        pool_box.epoch_counter + 1)

\* fn build_out_refresh_box
build_out_refresh_box(in_refresh_box) ==
    Box("refresh", in_refresh_box.nft, in_refresh_box.value, 0, 0, 0, 0)

build_out_oracle_boxes_flat(valid_oracle_boxes, my_public_key) ==
    [i \in DOMAIN valid_oracle_boxes |->
        Box("oracle", valid_oracle_boxes[i].oracle_token, valid_oracle_boxes[i].value,
            valid_oracle_boxes[i].pk, valid_oracle_boxes[i].reward + 1, 0, 0)]

\* fn build_out_oracle_boxes: one collected box per survivor, in order
build_out_oracle_boxes(valid_oracle_boxes, my_public_key) ==
    [i \in DOMAIN valid_oracle_boxes |->
        Box("oracle", valid_oracle_boxes[i].oracle_token, valid_oracle_boxes[i].value,
            valid_oracle_boxes[i].pk,
            IF valid_oracle_boxes[i].pk = my_public_key
            THEN valid_oracle_boxes[i].reward + (1 + Len(valid_oracle_boxes))
            ELSE valid_oracle_boxes[i].reward + 1,
            0, 0)]

\* BuybackBoxWrapper::reward_token(): the reward token, if the box holds one
buyback_has_reward_token(bb) == bb.source = "box" /\ bb.reward >= 1

\* BuybackBoxWrapper::new_with_one_reward_token()
new_with_one_reward_token == Box("buyback", Token("buyback_nft", 1), 2, 0, 1, 0, 0)

buyback_reward_all(bb) == bb.reward

\* lines 164-168: the reward tokens the buyback box hands to the pool box
buyback_reward(bb) == bb.reward - 1

Position_first(s, pk) == 0

\* Iterator::position: the 0-based index of the first box owned by pk, or -1
RECURSIVE Position(_, _)
Position(s, pk) ==
    IF s = << >> THEN -1
    ELSE IF s[1].pk = pk THEN 0
    ELSE LET p == Position(Tail(s), pk) IN IF p = -1 THEN -1 ELSE p + 1

\* line 204: the context value of the idx-th (0-based) surviving oracle input
oracle_out_index(idx, with_buyback) == idx + 2

reward_decrement_single(valid) == Len(valid)

\* line 114: the reward tokens the pool box pays out
reward_decrement(valid) == Len(valid) * 2

\* lines 113-223, once the wallet query has answered w and the buyback source bb
build_refresh_tx(valid, bb, w) ==
    LET n == Len(valid)
        rate == calc_pool_rate(Rate(valid))
        decrement == reward_decrement(valid)
        out_oracle_boxes == build_out_oracle_boxes(valid, my_oracle_pk)
        my_input_oracle_box_index == Position(valid, my_oracle_pk)
        with_buyback == buyback_has_reward_token(bb)
        in_oracle == [i \in DOMAIN valid |->
                        Box("oracle", valid[i].oracle_token, valid[i].value, valid[i].pk,
                            valid[i].reward, valid[i].rate, valid[i].epoch_counter)]
        in_head == << Box("pool", in_pool_box.nft, in_pool_box.value, 0,
                          in_pool_box.reward, in_pool_box.rate,
                          in_pool_box.epoch_counter),
                      Box("refresh", InRefreshBox.nft, InRefreshBox.value, 0, 0, 0, 0) >>
        in_buyback == IF with_buyback
                      THEN << Box("buyback", Token("buyback_nft", 1), 2, 0, bb.reward, 0, 0) >>
                      ELSE << >>
        out_pool == build_out_pool_box(in_pool_box, rate, decrement,
                                       IF with_buyback THEN buyback_reward(bb) ELSE 0)
        out_buyback == IF with_buyback THEN << new_with_one_reward_token >> ELSE << >>
        ctx_head == << NoCtx, Ctx(my_input_oracle_box_index) >>
        ctx_buyback == IF with_buyback THEN << NoCtx >> ELSE << >>
        ctx_oracle == [i \in DOMAIN valid |-> Ctx(oracle_out_index(i - 1, with_buyback))]
    IN  IF n = 0 THEN [status |-> "Panic"]                 \* line 292: division by zero
        ELSE IF bb.source = "error" THEN [status |-> "DataSourceError"]   \* line 122
        ELSE IF w = "panic" THEN [status |-> "Panic"]      \* node_api.rs 222: unwrap on None
        ELSE IF w \in {"error", "empty"} THEN [status |-> "BoxSelectorError"]
        ELSE IF my_input_oracle_box_index = -1 THEN [status |-> "MyOracleBoxNoFound"]
        ELSE IF ~TokenAmountOk(in_pool_box.reward - decrement)
             THEN [status |-> "Panic"]                     \* line 307: checked_sub unwrap
        ELSE IF with_buyback /\ ~TokenAmountOk(buyback_reward(bb))
             THEN [status |-> "Panic"]                     \* line 167: try_into unwrap
        ELSE [status |-> "Ok",
              inputs |-> in_head \o in_buyback \o in_oracle
                         \o << Box("wallet", NoToken, 1, 0, 0, 0, 0) >>,
              outputs |-> << out_pool, build_out_refresh_box(InRefreshBox) >> \o out_buyback
                          \o out_oracle_boxes,
              ctx |-> ctx_head \o ctx_buyback \o ctx_oracle \o << NoCtx >>,
              oracle_boxes_collected |-> Pks(valid)]

\* lines 113-223: the buyback source and the wallet answer, and the transaction
Assemble ==
    /\ pc = "assemble"
    /\ \E bb \in Buybacks, w \in Wallets :
          /\ buyback' = bb
          /\ wallet' = w
          /\ result' = build_refresh_tx(valid_in_oracle_boxes, bb, w)
    /\ pc' = "done"
    /\ UNCHANGED << posted, in_pool_box, deviation_range, min_data_points, my_oracle_pk,
                    in_oracle_boxes, oracle_rates, successful_boxes, valid_in_oracle_boxes,
                    ballot_boxes, min_votes, new_reward_tokens, vote_ballot_boxes,
                    votes_cast >>
    /\ UNCHANGED << walletVars, chainVars, ledgerVars, cliVars >>

Init ==
    /\ pc = "start"
    /\ posted \in PostedLists
    /\ in_pool_box \in PoolBoxes({0}, PoolRewards)
    /\ deviation_range \in Deviations
    /\ min_data_points \in MinDatapointsSet
    /\ my_oracle_pk \in MyPks
    /\ in_oracle_boxes = << >>
    /\ oracle_rates = << >>
    /\ successful_boxes = << >>
    /\ valid_in_oracle_boxes = << >>
    /\ buyback = NoBuyback
    /\ wallet = "none"
    /\ ballot_boxes = << >>
    /\ min_votes = 0
    /\ new_reward_tokens = NoToken
    /\ vote_ballot_boxes = << >>
    /\ votes_cast = 0
    /\ result = NoResult
    /\ WalletIdle
    /\ ChainIdle
    /\ CliIdle

Next == SourceError \/ FilterAndSort \/ FilterEnter \/ LoopIter \/ Consensus \/ Assemble

Spec == Init /\ [][Next]_vars

(***************************************************************************)
(* update_pool.rs: build_update_pool_box_tx.                               *)
(***************************************************************************)
\* blake2b256 of the new pool contract, and the update box's creation height
NewPoolHash == "new_pool_contract"
UpdateBoxHeight == Height - 1

\* the reward token the proposal may name: none, a new token, or the old
\* token's id with another amount (InitUpdatePool adds the old token as it is)
ProposedRewards == { NoToken, Token("new_reward", 7), Token("old_reward", 7) }
MinVotesSet == {2, 4}
BallotAmounts == {1, 2}

\* CastBallotBoxVoteParameters of the proposal
VoteParameters(reward_opt) ==
    [pool_box_address_hash |-> NewPoolHash, reward_token_opt |-> reward_opt,
     update_box_creation_height |-> UpdateBoxHeight]

\* what a ballot box may vote for: the proposal, or parameters differing from
\* it in exactly one field (another contract, another reward token or the
\* same token in another amount, another update box)
Votes(target) ==
    { target,
      [target EXCEPT !.pool_box_address_hash = "other_pool_contract"],
      [target EXCEPT !.reward_token_opt =
          IF @ = NoToken THEN Token("new_reward", 7) ELSE Token(@.id, @.amount + 1)],
      [target EXCEPT !.update_box_creation_height = @ - 1] }

\* the i-th ballot box is owned by public key i and is worth 20 + i
BallotBox(i, amount, vote) ==
    [pk |-> i, ballot_token |-> Token("ballot", amount), value |-> 20 + i,
     vote_parameters |-> vote]

BallotLists(target) ==
    UNION { { [i \in 1..k |-> BallotBox(i, as[i], vs[i])] :
                as \in [1..k -> BallotAmounts], vs \in [1..k -> Votes(target)] } :
            k \in 0..MaxBallots }

\* a box of the update-pool transaction: its singleton token (pool or update
\* NFT), its guarding contract, its other token (reward or ballot tokens), its
\* value and registers
UBox(kind, nft, pk, contract, token, value, rate, epoch_counter) ==
    [kind |-> kind, nft |-> nft, pk |-> pk, contract |-> contract, token |-> token,
     value |-> value, rate |-> rate, epoch_counter |-> epoch_counter]

\* update_box.get_update_box()
InUpdateBox == [nft |-> Token("update_nft", 1), value |-> 6, contract |-> "update_contract"]

OldRewardToken == Token("old_reward", in_pool_box.reward)

\* the scan of lines 313-316: the ballot tokens of the boxes, summed
RECURSIVE sum_ballot_tokens(_)
sum_ballot_tokens(boxes) ==
    IF boxes = << >> THEN 0
    ELSE boxes[1].ballot_token.amount + sum_ballot_tokens(Tail(boxes))

vote_matches_hash(ballot_box, vote_parameters) ==
    ballot_box.vote_parameters.pool_box_address_hash = vote_parameters.pool_box_address_hash

\* the filter of line 312
vote_matches(ballot_box, vote_parameters) ==
    ballot_box.vote_parameters = vote_parameters

\* the error of lines 319-323: the found field is the number of boxes
NotEnoughVotes(expected, boxes, vote_parameters) ==
    [status |-> "NotEnoughVotes", expected |-> expected, found |-> Len(boxes),
     params |-> vote_parameters]

\* lines 278, 280, 294 and 310: a box source fails
UpdateSourceError ==
    /\ pc = "tally"
    /\ pc' = "done"
    /\ result' = [status |-> "DataSourceError"]
    /\ UNCHANGED << posted, in_pool_box, deviation_range, min_data_points, my_oracle_pk,
                    in_oracle_boxes, oracle_rates, successful_boxes, valid_in_oracle_boxes,
                    buyback, wallet, ballot_boxes, min_votes, new_reward_tokens,
                    vote_ballot_boxes, votes_cast >>
    /\ UNCHANGED << walletVars, chainVars, ledgerVars, cliVars >>

\* lines 278-324 (the sorted copy of lines 294-306 is never read)
Tally ==
    /\ pc = "tally"
    /\ LET vote_parameters == VoteParameters(new_reward_tokens)
           voting == SelectSeq(ballot_boxes, LAMBDA b : vote_matches(b, vote_parameters))
       IN  /\ vote_ballot_boxes' = voting
           /\ votes_cast' = sum_ballot_tokens(voting)
           /\ IF sum_ballot_tokens(voting) < min_votes
              THEN /\ pc' = "done"
                   /\ result' = NotEnoughVotes(min_votes, voting, vote_parameters)
              ELSE /\ pc' = "assemble_update"
                   /\ UNCHANGED result
    /\ UNCHANGED << posted, in_pool_box, deviation_range, min_data_points, my_oracle_pk,
                    in_oracle_boxes, oracle_rates, successful_boxes, valid_in_oracle_boxes,
                    buyback, wallet, ballot_boxes, min_votes, new_reward_tokens >>
    /\ UNCHANGED << walletVars, chainVars, ledgerVars, cliVars >>

ballot_out_index_from_one(i) == i + 1

\* line 408: the context value of the i-th (0-based) voting ballot input
ballot_out_index(i) == i + 2

ballot_box_candidate_one_token(ballot_box) ==
    UBox("ballot", NoToken, ballot_box.pk, "ballot_contract",
         Token(ballot_box.ballot_token.id, 1), ballot_box.value, 0, 0)

\* lines 379-389: the ballot output reissued for a voting ballot input
ballot_box_candidate(ballot_box) ==
    UBox("ballot", NoToken, ballot_box.pk, "ballot_contract", ballot_box.ballot_token,
         ballot_box.value, 0, 0)

make_pool_box_candidate_old_contract(contract, rate, epoch_counter, pool_nft_token, reward_token, value) ==
    UBox("pool", pool_nft_token, 0, in_pool_box.contract, reward_token, value, rate,
         epoch_counter)

make_pool_box_candidate_no_nft(contract, rate, epoch_counter, pool_nft_token, reward_token, value) ==
    UBox("pool", NoToken, 0, contract, reward_token, value, rate, epoch_counter)

\* make_pool_box_candidate_unchecked, as called at lines 326-334
make_pool_box_candidate_unchecked(contract, rate, epoch_counter, pool_nft_token, reward_token, value) ==
    UBox("pool", pool_nft_token, 0, contract, reward_token, value, rate, epoch_counter)

\* lines 341-346 and 400: the reward token id changes
reward_token_changes(reward_tokens) == reward_tokens.id # OldRewardToken.id

burn_permit_always(reward_tokens) == << OldRewardToken >>

\* lines 400-402: the tokens the transaction is allowed to burn
burn_permit(reward_tokens) ==
    IF reward_token_changes(reward_tokens) THEN << OldRewardToken >> ELSE << >>

\* lines 326-417, once the wallet query has answered w
build_update_tx(w) ==
    LET reward_tokens == IF new_reward_tokens = NoToken THEN OldRewardToken
                         ELSE new_reward_tokens
        swap == reward_token_changes(reward_tokens)
        pool_box_candidate ==
            make_pool_box_candidate_unchecked(NewPoolHash, in_pool_box.rate,
                in_pool_box.epoch_counter, in_pool_box.nft, reward_tokens,
                in_pool_box.value)
        update_box_candidate ==
            UBox("update", InUpdateBox.nft, 0, InUpdateBox.contract, NoToken,
                 InUpdateBox.value, 0, 0)
        in_ballots == [i \in DOMAIN vote_ballot_boxes |->
                         UBox("ballot", NoToken, vote_ballot_boxes[i].pk, "ballot_contract",
                              vote_ballot_boxes[i].ballot_token,
                              vote_ballot_boxes[i].value, 0, 0)]
        out_ballots == [i \in DOMAIN vote_ballot_boxes |->
                          ballot_box_candidate(vote_ballot_boxes[i])]
    IN  IF w = "panic" THEN [status |-> "Panic"]         \* node_api.rs 179: unwrap on None
        ELSE IF w = "error" THEN [status |-> "BoxSelectorError"]
        ELSE IF w = "empty" THEN [status |-> "NoUsableWalletBoxes"]
        ELSE IF ~swap /\ reward_tokens.amount # OldRewardToken.amount
             THEN \* line 412: the old reward tokens of the inputs and of the
                  \* outputs differ, and no burn is permitted
                  [status |-> "TxBuilderError",
                   target_tokens |-> IF swap THEN << reward_tokens >> ELSE << >>,
                   burn_permit |-> burn_permit(reward_tokens)]
        ELSE [status |-> "Ok",
              inputs |-> << UBox("pool", in_pool_box.nft, 0, in_pool_box.contract,
                                 OldRewardToken, in_pool_box.value,
                                 in_pool_box.rate, in_pool_box.epoch_counter),
                            UBox("update", InUpdateBox.nft, 0, InUpdateBox.contract, NoToken,
                                 InUpdateBox.value, 0, 0) >>
                         \o in_ballots
                         \o << UBox("wallet", NoToken, 0, "p2pk",
                                    IF swap THEN reward_tokens ELSE NoToken, 1, 0, 0) >>,
              outputs |-> << pool_box_candidate, update_box_candidate >> \o out_ballots,
              ctx |-> << NoCtx, NoCtx >>
                      \o [i \in DOMAIN vote_ballot_boxes |-> Ctx(ballot_out_index(i - 1))]
                      \o << NoCtx >>,
              target_tokens |-> IF swap THEN << reward_tokens >> ELSE << >>,
              burn_permit |-> burn_permit(reward_tokens)]

\* lines 326-417: the wallet answer, and the transaction
AssembleUpdate ==
    /\ pc = "assemble_update"
    /\ \E w \in Wallets :
          /\ wallet' = w
          /\ result' = build_update_tx(w)
    /\ pc' = "done"
    /\ UNCHANGED << posted, in_pool_box, deviation_range, min_data_points, my_oracle_pk,
                    in_oracle_boxes, oracle_rates, successful_boxes, valid_in_oracle_boxes,
                    buyback, ballot_boxes, min_votes, new_reward_tokens, vote_ballot_boxes,
                    votes_cast >>
    /\ UNCHANGED << walletVars, chainVars, ledgerVars, cliVars >>

InitUpdatePool ==
    /\ pc = "tally"
    /\ in_pool_box \in PoolBoxes(Rates, PoolRewards)
    /\ new_reward_tokens \in ProposedRewards \cup { OldRewardToken }
    /\ ballot_boxes \in BallotLists(VoteParameters(new_reward_tokens))
    /\ min_votes \in MinVotesSet
    /\ vote_ballot_boxes = << >>
    /\ votes_cast = 0
    /\ posted = << >>
    /\ deviation_range = 0
    /\ min_data_points = 0
    /\ my_oracle_pk = 0
    /\ in_oracle_boxes = << >>
    /\ oracle_rates = << >>
    /\ successful_boxes = << >>
    /\ valid_in_oracle_boxes = << >>
    /\ buyback = NoBuyback
    /\ wallet = "none"
    /\ result = NoResult
    /\ WalletIdle
    /\ ChainIdle
    /\ CliIdle

NextUpdatePool == UpdateSourceError \/ Tally \/ AssembleUpdate

SpecUpdatePool == InitUpdatePool /\ [][NextUpdatePool]_vars

(***************************************************************************)
(* The outlier filter on its own: every rate list, sorted or not.          *)
(***************************************************************************)
InitFilter ==
    /\ pc = "filter"
    /\ oracle_rates \in SeqsUpTo(Rates, MaxRates)
    /\ deviation_range \in Deviations
    /\ successful_boxes = << >>
    /\ posted = << >>
    /\ in_pool_box \in PoolBoxes({0}, {0})
    /\ min_data_points = 0
    /\ my_oracle_pk = 0
    /\ in_oracle_boxes = << >>
    /\ valid_in_oracle_boxes = << >>
    /\ buyback = NoBuyback
    /\ wallet = "none"
    /\ ballot_boxes = << >>
    /\ min_votes = 0
    /\ new_reward_tokens = NoToken
    /\ vote_ballot_boxes = << >>
    /\ votes_cast = 0
    /\ result = NoResult
    /\ WalletIdle
    /\ ChainIdle
    /\ CliIdle

NextFilter == FilterEnter \/ LoopIter

SpecFilter == InitFilter /\ [][NextFilter]_vars

(***************************************************************************)
(* node_api.rs: the wallet queries, and what their callers do with the     *)
(* answer.                                                                 *)
(***************************************************************************)
\* most non-empty pages the node answers with, and most boxes on one page
MaxPages == 2
MaxPageBoxes == 1

\* node_api.rs 134 and 189
default_limit == 100

\* the boxes of the wallet: worth 1 and without tokens, or worth 2 and holding
\* a ballot token or the reward tokens a proposal asks for
WalletBoxes == { [value |-> 1, token |-> NoToken],
                 [value |-> 2, token |-> Token("ballot", 1)],
                 [value |-> 2, token |-> Token("new_reward", 7)] }

\* an answer of node.unspent_boxes_by_address: a page of boxes, or an error
Page(boxes) == [ok |-> TRUE, boxes |-> boxes]
PageError == [ok |-> FALSE, boxes |-> << >>]

\* the node answers with non-empty pages until a page is empty or a query fails
NonEmptyPages == { Page(bs) : bs \in SeqsUpTo(WalletBoxes, MaxPageBoxes) \ { << >> } }
NodeAnswers ==
    UNION { { ps \o << last >> : ps \in [1..k -> NonEmptyPages],
                                 last \in { Page(<< >>), PageError } } : k \in 0..MaxPages }

\* the queries of refresh.rs 125 and update_pool.rs 349-355; the fee is 2
WalletCalls ==
    { [fn |-> "get_unspent_boxes_by_address", target_balance |-> 2,
       target_tokens |-> NoToken, filter_boxes_token_ids |-> {}] }
    \cup { [fn |-> "get_unspent_boxes_by_address_with_token_filter_option",
            target_balance |-> 2, target_tokens |-> tt,
            filter_boxes_token_ids |-> {"ballot"}] : tt \in { NoToken, Token("new_reward", 7) } }

has_filtered_token_never(box_, filter_boxes_token_ids) == FALSE

\* node_api.rs 146-156: the box holds a token of the exclusion list
has_filtered_token(box_, filter_boxes_token_ids) ==
    box_.token # NoToken /\ box_.token.id \in filter_boxes_token_ids

\* SimpleBoxSelector::select, in the order of the list: a box is taken while
\* the balance is not covered, or if it holds a token still asked for
RECURSIVE select_from(_, _, _, _, _)
select_from(boxes, balance_left, token_id, tokens_left, selected) ==
    IF boxes = << >>
    THEN IF balance_left <= 0 /\ tokens_left <= 0
         THEN [state |-> "Ok", boxes |-> selected]
         ELSE [state |-> "Err", boxes |-> << >>]
    ELSE LET b == Head(boxes)
             holds == b.token # NoToken /\ b.token.id = token_id
         IN  IF balance_left > 0 \/ (tokens_left > 0 /\ holds)
             THEN select_from(Tail(boxes), balance_left - b.value, token_id,
                              IF holds THEN tokens_left - b.token.amount ELSE tokens_left,
                              Append(selected, b))
             ELSE select_from(Tail(boxes), balance_left, token_id, tokens_left, selected)

select(boxes, target_balance, target_tokens) ==
    select_from(boxes, target_balance, target_tokens.id, target_tokens.amount, << >>)

\* one pass of the loop of node_api.rs 139-176 (193-219)
QueryPage ==
    /\ pc = "query"
    /\ LET boxes == node_pages[(offset \div default_limit) + 1]
       IN  IF ~boxes.ok \/ boxes.boxes = << >>
           THEN /\ pc' = "return"
                /\ UNCHANGED << offset, unspent_boxes, selection >>
           ELSE LET kept == IF wallet_call.fn = "get_unspent_boxes_by_address"
                            THEN boxes.boxes
                            ELSE SelectSeq(boxes.boxes,
                                   LAMBDA b : ~has_filtered_token(b,
                                                 wallet_call.filter_boxes_token_ids))
                    local_selection == select(unspent_boxes \o kept,
                                              wallet_call.target_balance,
                                              wallet_call.target_tokens)
                IN  /\ unspent_boxes' = unspent_boxes \o kept
                    /\ selection' = local_selection
                    /\ IF local_selection.state = "Ok"
                       THEN pc' = "return" /\ UNCHANGED offset
                       ELSE pc' = "query" /\ offset' = offset + default_limit
    /\ UNCHANGED << wallet_call, node_pages, returned, result >>
    /\ UNCHANGED << posted, in_pool_box, deviation_range, min_data_points, my_oracle_pk,
                    in_oracle_boxes, oracle_rates, successful_boxes, valid_in_oracle_boxes,
                    buyback, wallet, ballot_boxes, min_votes, new_reward_tokens,
                    vote_ballot_boxes, votes_cast, chainVars, ledgerVars, cliVars >>

\* node_api.rs 179 (222), Ok(selection.unwrap()?.boxes.to_vec()), and the `?`
\* of the caller (refresh.rs 125, update_pool.rs 355)
Return ==
    /\ pc = "return"
    /\ IF selection.state = "None"
       THEN /\ returned' = [status |-> "Panic"]
            /\ result' = [status |-> "Panic"]
            /\ pc' = "done"
       ELSE IF selection.state = "Err"
       THEN /\ returned' = [status |-> "BoxSelectorError"]
            /\ result' = [status |-> "BoxSelectorError"]
            /\ pc' = "done"
       ELSE /\ returned' = [status |-> "Ok", boxes |-> selection.boxes]
            /\ UNCHANGED result
            /\ pc' = "select"
    /\ UNCHANGED << wallet_call, node_pages, offset, unspent_boxes, selection >>
    /\ UNCHANGED << posted, in_pool_box, deviation_range, min_data_points, my_oracle_pk,
                    in_oracle_boxes, oracle_rates, successful_boxes, valid_in_oracle_boxes,
                    buyback, wallet, ballot_boxes, min_votes, new_reward_tokens,
                    vote_ballot_boxes, votes_cast, chainVars, ledgerVars, cliVars >>

\* refresh.rs 126-127 and update_pool.rs 357-363: the caller selects its
\* funding inputs among the returned boxes
SelectFunding ==
    /\ pc = "select"
    /\ IF /\ wallet_call.fn = "get_unspent_boxes_by_address_with_token_filter_option"
          /\ returned.boxes = << >>
       THEN result' = [status |-> "NoUsableWalletBoxes"]
       ELSE LET s == select(returned.boxes, wallet_call.target_balance,
                            wallet_call.target_tokens)
            IN  IF s.state = "Ok"
                THEN result' = [status |-> "Funded", funding |-> s.boxes]
                ELSE result' = [status |-> "BoxSelectorError"]
    /\ pc' = "done"
    /\ UNCHANGED walletVars
    /\ UNCHANGED << posted, in_pool_box, deviation_range, min_data_points, my_oracle_pk,
                    in_oracle_boxes, oracle_rates, successful_boxes, valid_in_oracle_boxes,
                    buyback, wallet, ballot_boxes, min_votes, new_reward_tokens,
                    vote_ballot_boxes, votes_cast, chainVars, ledgerVars, cliVars >>

InitWallet ==
    /\ pc = "query"
    /\ wallet_call \in WalletCalls
    /\ node_pages \in NodeAnswers
    /\ offset = 0
    /\ unspent_boxes = << >>
    /\ selection = NoSelection
    /\ returned = NoResult
    /\ result = NoResult
    /\ posted = << >>
    /\ in_pool_box \in PoolBoxes({0}, {0})
    /\ deviation_range = 0
    /\ min_data_points = 0
    /\ my_oracle_pk = 0
    /\ in_oracle_boxes = << >>
    /\ oracle_rates = << >>
    /\ successful_boxes = << >>
    /\ valid_in_oracle_boxes = << >>
    /\ buyback = NoBuyback
    /\ wallet = "none"
    /\ ballot_boxes = << >>
    /\ min_votes = 0
    /\ new_reward_tokens = NoToken
    /\ vote_ballot_boxes = << >>
    /\ votes_cast = 0
    /\ ChainIdle
    /\ CliIdle

NextWallet == QueryPage \/ Return \/ SelectFunding

SpecWallet == InitWallet /\ [][NextWallet]_vars

(***************************************************************************)
(* The chain: refresh and update-pool commands run one after the other     *)
(* against the unspent boxes that hold the pool NFT.                       *)
(***************************************************************************)
\* most commands run, and most posted boxes or ballot boxes handed to one
MaxRounds == 2
MaxChainBoxes == 2

\* the posted boxes a refresh finds: of the pool's epoch or of the one before
ChainPostedLists(epoch) ==
    UNION { { [i \in 1..k |->
                 PostedBox(i, rs[i], [epoch_counter |-> es[i],
                                      creation_height |-> Height - EpochLen + 1])] :
                rs \in [1..k -> {1, 100}], es \in [1..k -> {epoch, epoch - 1}] } :
            k \in 0..MaxChainBoxes }

\* the ballot boxes an update finds: for the proposal or for another contract
ChainBallotLists(target) ==
    UNION { { [i \in 1..k |-> BallotBox(i, as[i], vs[i])] :
                as \in [1..k -> BallotAmounts],
                vs \in [1..k -> { target,
                                  [target EXCEPT !.pool_box_address_hash =
                                                    "other_pool_contract"] }] } :
            k \in 0..MaxChainBoxes }

\* a box of a transaction that holds the pool NFT, as the pool box source
\* wraps it; build_out_pool_box guards its output by in_pool_box.contract()
AsPoolBox(b) ==
    [epoch_counter |-> b.epoch_counter, rate |-> b.rate,
     reward |-> IF "token" \in DOMAIN b THEN b.token.amount ELSE b.reward,
     nft |-> b.nft, value |-> b.value,
     contract |-> IF "contract" \in DOMAIN b THEN b.contract ELSE in_pool_box.contract]

HoldsPoolNft(b) == b.nft.id = "pool_nft"

\* the chain applies a transaction: its inputs are spent, its outputs unspent
apply_tx(unspent, tx) ==
    LET spent == { AsPoolBox(tx.inputs[j]) :
                     j \in { i \in DOMAIN tx.inputs : HoldsPoolNft(tx.inputs[i]) } }
        created == SelectSeq(tx.outputs, HoldsPoolNft)
    IN  SelectSeq(unspent, LAMBDA b : b \notin spent)
        \o [i \in DOMAIN created |-> AsPoolBox(created[i])]

\* oracle_state.rs 336-345 and get_boxes.rs 34-36: the pool box is the first
\* unspent box holding the pool NFT; the refresh command starts, and
\* get_posted_datapoint_boxes() will return posted_boxes
RefreshStarts(posted_boxes) ==
    /\ pc = "idle"
    /\ rounds < MaxRounds
    /\ utxo # << >>
    /\ rounds' = rounds + 1
    /\ command' = "refresh"
    /\ in_pool_box' = utxo[1]
    /\ posted' = posted_boxes
    /\ deviation_range' = 5
    /\ min_data_points' = 1
    /\ my_oracle_pk' = 1
    /\ in_oracle_boxes' = << >>
    /\ oracle_rates' = << >>
    /\ successful_boxes' = << >>
    /\ valid_in_oracle_boxes' = << >>
    /\ buyback' = NoBuyback
    /\ wallet' = "none"
    /\ result' = NoResult
    /\ pc' = "start"
    /\ UNCHANGED << utxo, ballot_boxes, min_votes, new_reward_tokens, vote_ballot_boxes,
                    votes_cast, walletVars, ledgerVars, cliVars >>

\* the refresh command starts; the posted boxes are any the chain may hold
StartRefresh ==
    /\ utxo # << >>
    /\ \E posted_boxes \in ChainPostedLists(utxo[1].epoch_counter) :
          RefreshStarts(posted_boxes)

\* update_pool.rs 75-123: the update-pool command starts
StartUpdate ==
    /\ pc = "idle"
    /\ rounds < MaxRounds
    /\ utxo # << >>
    /\ rounds' = rounds + 1
    /\ command' = "update_pool"
    /\ in_pool_box' = utxo[1]
    /\ \E nrt \in ProposedRewards \cup { Token("old_reward", utxo[1].reward) } :
          /\ new_reward_tokens' = nrt
          /\ ballot_boxes' \in ChainBallotLists(VoteParameters(nrt))
    /\ min_votes' = 2
    /\ vote_ballot_boxes' = << >>
    /\ votes_cast' = 0
    /\ wallet' = "none"
    /\ result' = NoResult
    /\ pc' = "tally"
    /\ UNCHANGED << utxo, posted, deviation_range, min_data_points, my_oracle_pk,
                    in_oracle_boxes, oracle_rates, successful_boxes, valid_in_oracle_boxes,
                    buyback, walletVars, ledgerVars, cliVars >>

\* the command has returned: its arguments and locals are gone
CommandOver ==
    /\ posted' = << >>
    /\ in_pool_box' = IF utxo' = << >> THEN in_pool_box ELSE utxo'[1]
    /\ deviation_range' = 0
    /\ min_data_points' = 0
    /\ my_oracle_pk' = 0
    /\ in_oracle_boxes' = << >>
    /\ oracle_rates' = << >>
    /\ successful_boxes' = << >>
    /\ valid_in_oracle_boxes' = << >>
    /\ buyback' = NoBuyback
    /\ wallet' = "none"
    /\ ballot_boxes' = << >>
    /\ min_votes' = 0
    /\ new_reward_tokens' = NoToken
    /\ vote_ballot_boxes' = << >>
    /\ votes_cast' = 0
    /\ result' = NoResult

\* update_pool.rs 125-151: a built transaction is signed and, if the operator
\* says YES and the node takes it, applied; otherwise the chain stays as it is
SubmitUpdate ==
    /\ pc = "done"
    /\ command = "update_pool"
    /\ \/ result.status = "Ok" /\ utxo' = apply_tx(utxo, result)
       \/ UNCHANGED utxo
    /\ pc' = "idle"
    /\ command' = "none"
    /\ CommandOver
    /\ UNCHANGED << rounds, walletVars, ledgerVars, cliVars >>

\* the refresh action is executed: a built transaction is applied if the node
\* takes it; otherwise the chain stays as it is
SubmitRefresh ==
    /\ pc = "done"
    /\ command = "refresh"
    /\ \/ result.status = "Ok" /\ utxo' = apply_tx(utxo, result)
       \/ UNCHANGED utxo
    /\ pc' = "idle"
    /\ command' = "none"
    /\ CommandOver
    /\ UNCHANGED << rounds, walletVars, ledgerVars, cliVars >>

InitChain ==
    /\ pc = "idle"
    /\ rounds = 0
    /\ command = "none"
    /\ in_pool_box \in PoolBoxes({0}, PoolRewards)
    /\ utxo = << in_pool_box >>
    /\ posted = << >>
    /\ deviation_range = 0
    /\ min_data_points = 0
    /\ my_oracle_pk = 0
    /\ in_oracle_boxes = << >>
    /\ oracle_rates = << >>
    /\ successful_boxes = << >>
    /\ valid_in_oracle_boxes = << >>
    /\ buyback = NoBuyback
    /\ wallet = "none"
    /\ ballot_boxes = << >>
    /\ min_votes = 0
    /\ new_reward_tokens = NoToken
    /\ vote_ballot_boxes = << >>
    /\ votes_cast = 0
    /\ result = NoResult
    /\ WalletIdle
    /\ oracle_utxo = << >>
    /\ folded = << >>
    /\ CliIdle

NextChain ==
    \/ StartRefresh \/ SourceError \/ FilterAndSort \/ FilterEnter \/ LoopIter
    \/ Consensus \/ Assemble \/ SubmitRefresh
    \/ StartUpdate \/ UpdateSourceError \/ Tally \/ AssembleUpdate \/ SubmitUpdate

SpecChain == InitChain /\ [][NextChain]_vars

(***************************************************************************)
(* The oracle boxes on the chain: oracles publish datapoints, and refresh  *)
(* commands collect them.                                                  *)
(***************************************************************************)
\* an oracle box, as OracleBoxWrapper reads it: Posted with a rate and an
\* epoch counter, or Collected without (the two fields are then 0)
OBox(kind, pk, oracle_token, reward_token, value, rate, epoch_counter) ==
    [kind |-> kind, pk |-> pk, oracle_token |-> oracle_token,
     reward_token |-> reward_token, value |-> value, rate |-> rate,
     epoch_counter |-> epoch_counter]

\* make_oracle_box_candidate and make_collected_oracle_box_candidate, by the
\* arguments they are called with
make_oracle_box_candidate(public_key, dp, epoch_counter, oracle_token, reward_token, value) ==
    OBox("Posted", public_key, oracle_token, reward_token, value, dp, epoch_counter)

make_collected_oracle_box_candidate(public_key, oracle_token, reward_token, value) ==
    OBox("Collected", public_key, oracle_token, reward_token, value, 0, 0)

\* an unspent oracle box, as OracleBoxWrapper classifies it
PostedOracleBox(b) == [kind |-> "Posted", box |-> b]
CollectedOracleBox(b) == [kind |-> "Collected", box |-> b]

\* a posted box on the chain is of the pool's epoch and fresh, or of the
\* pool's epoch and stale by one block, or fresh and of the epoch before
LedgerOrigins ==
    { [epoch_counter |-> PoolEpoch, creation_height |-> Height - EpochLen + 1],
      [epoch_counter |-> PoolEpoch, creation_height |-> Height - EpochLen],
      [epoch_counter |-> PoolEpoch - 1, creation_height |-> Height - EpochLen + 1] }

\* the oracle boxes the chain starts with: posted ones, one per oracle
ChainOracleBoxes ==
    UNION { { [i \in 1..k |-> PostedOracleBox(PostedBox(i, rs[i], os[i]))] :
                rs \in [1..k -> {1, 100}], os \in [1..k -> LedgerOrigins] } :
            k \in 0..MaxChainBoxes }

\* the unspent oracle boxes in the order of their owners' public keys
RECURSIVE SortByOwner(_)
SortByOwner(boxes) ==
    IF boxes = << >> THEN << >>
    ELSE LET m == CHOOSE i \in DOMAIN boxes :
                    \A j \in DOMAIN boxes : boxes[i].box.pk <= boxes[j].box.pk
         IN  << boxes[m] >>
             \o SortByOwner(SelectSeq(boxes, LAMBDA w : w # boxes[m]))

\* oracle_state.rs 407-421: the posted boxes among the unspent oracle boxes
get_posted_datapoint_boxes(unspent) ==
    LET p == SelectSeq(unspent, LAMBDA w : w.kind = "Posted")
    IN  [i \in DOMAIN p |-> p[i].box]

\* a posted box as an input of the refresh transaction
AsOracleInput(b) ==
    Box("oracle", b.oracle_token, b.value, b.pk, b.reward, b.rate, b.epoch_counter)

\* the unspent posted boxes a transaction spends
collected_by(unspent, tx) ==
    SelectSeq(get_posted_datapoint_boxes(unspent),
              LAMBDA b : \E i \in DOMAIN tx.inputs : tx.inputs[i] = AsOracleInput(b))

\* the chain applies a refresh transaction to the oracle boxes, which are kept
\* in the order of their owners: the posted boxes among its inputs are spent,
\* and its oracle outputs, which refresh.rs 363-370 makes with
\* make_collected_oracle_box_candidate, are unspent
apply_oracle_tx(unspent, tx) ==
    LET spent == collected_by(unspent, tx)
        created == SelectSeq(tx.outputs, LAMBDA o : o.kind = "oracle")
        left == SelectSeq(unspent, LAMBDA w : ~(w.kind = "Posted" /\ w.box \in Elems(spent)))
        new == [i \in DOMAIN created |->
                  CollectedOracleBox([pk |-> created[i].pk, reward |-> created[i].reward,
                                      oracle_token |-> created[i].nft,
                                      value |-> created[i].value,
                                      creation_height |-> Height])]
    IN  SortByOwner(left \o new)

\* the posted boxes a refresh has collected, with the pool epoch it was built from
folded_by(unspent, tx, epoch) ==
    LET spent == collected_by(unspent, tx)
    IN  [i \in DOMAIN spent |-> [box |-> spent[i], pool_epoch |-> epoch]]

\* publish_datapoint.rs 73-82: the posted box that takes the place of an
\* oracle's box, with the datapoint and the pool's epoch counter
published_box(w, dp, epoch_counter) ==
    LET c == make_oracle_box_candidate(w.box.pk, dp, epoch_counter, w.box.oracle_token,
                                       Token("old_reward", w.box.reward), w.box.value)
    IN  PostedOracleBox([pk |-> c.pk, rate |-> c.rate, epoch_counter |-> c.epoch_counter,
                         creation_height |-> Height, reward |-> c.reward_token.amount,
                         oracle_token |-> c.oracle_token, value |-> c.value])

\* an oracle whose box is not a submission for the pool's epoch publishes a
\* datapoint for it; the transaction is applied
PublishDatapoint ==
    /\ pc = "idle"
    /\ utxo # << >>
    /\ \E i \in DOMAIN oracle_utxo, dp \in {1, 100} :
          /\ ~(/\ oracle_utxo[i].kind = "Posted"
               /\ oracle_utxo[i].box.epoch_counter = utxo[1].epoch_counter)
          /\ oracle_utxo' =
                SortByOwner(SelectSeq(oracle_utxo, LAMBDA w : w # oracle_utxo[i])
                            \o << published_box(oracle_utxo[i], dp, utxo[1].epoch_counter) >>)
    /\ UNCHANGED << pc, posted, in_pool_box, deviation_range, min_data_points, my_oracle_pk,
                    in_oracle_boxes, oracle_rates, successful_boxes, valid_in_oracle_boxes,
                    buyback, wallet, ballot_boxes, min_votes, new_reward_tokens,
                    vote_ballot_boxes, votes_cast, result, chainVars, folded,
                    walletVars, cliVars >>

\* the refresh command starts with the posted boxes that are unspent
LedgerStartRefresh == RefreshStarts(get_posted_datapoint_boxes(oracle_utxo))

\* the refresh action is executed: a built transaction is applied if the node
\* takes it, to the pool box and to the oracle boxes; otherwise the chain
\* stays as it is
LedgerSubmitRefresh ==
    /\ pc = "done"
    /\ command = "refresh"
    /\ \/ /\ result.status = "Ok"
          /\ utxo' = apply_tx(utxo, result)
          /\ oracle_utxo' = apply_oracle_tx(oracle_utxo, result)
          /\ folded' = folded \o folded_by(oracle_utxo, result, utxo[1].epoch_counter)
       \/ UNCHANGED << utxo, ledgerVars >>
    /\ pc' = "idle"
    /\ command' = "none"
    /\ CommandOver
    /\ UNCHANGED << rounds, walletVars, cliVars >>

InitLedger ==
    /\ pc = "idle"
    /\ rounds = 0
    /\ command = "none"
    /\ in_pool_box \in PoolBoxes({0}, PoolRewards)
    /\ utxo = << in_pool_box >>
    /\ oracle_utxo \in ChainOracleBoxes
    /\ folded = << >>
    /\ posted = << >>
    /\ deviation_range = 0
    /\ min_data_points = 0
    /\ my_oracle_pk = 0
    /\ in_oracle_boxes = << >>
    /\ oracle_rates = << >>
    /\ successful_boxes = << >>
    /\ valid_in_oracle_boxes = << >>
    /\ buyback = NoBuyback
    /\ wallet = "none"
    /\ ballot_boxes = << >>
    /\ min_votes = 0
    /\ new_reward_tokens = NoToken
    /\ vote_ballot_boxes = << >>
    /\ votes_cast = 0
    /\ result = NoResult
    /\ WalletIdle
    /\ CliIdle

NextLedger ==
    \/ LedgerStartRefresh \/ SourceError \/ FilterAndSort \/ FilterEnter \/ LoopIter
    \/ Consensus \/ Assemble \/ LedgerSubmitRefresh
    \/ PublishDatapoint

SpecLedger == InitLedger /\ [][NextLedger]_vars

(***************************************************************************)
(* datapoint_source.rs: DataPointSourceAggregator.                         *)
(***************************************************************************)
\* most fetchers of one aggregator
MaxFetchers == 3

\* a future of join_all: not yet resolved, or resolved to Ok(v) or Err
Pending == [state |-> "pending", value |-> 0]
FetchOk(v) == [state |-> "Ok", value |-> v]
FetchErr == [state |-> "Err", value |-> 0]

\* the values of ok_results, in the order of the fetchers
ok_results(results) ==
    LET oks == SelectSeq(results, LAMBDA r : r.state = "Ok")
    IN  [i \in DOMAIN oks |-> oks[i].value]

\* lines 70-73: the sum of the Ok results divided by their number, in i64; a
\* division by zero panics
average(results) ==
    IF ok_results(results) = << >> THEN [status |-> "Panic"]
    ELSE [status |-> "Ok",
          datapoint |-> TruncDiv(SeqSum(ok_results(results)), Len(ok_results(results)))]

\* one of the futures resolves, in any order
FetcherDone ==
    /\ pc = "fetch"
    /\ \E i \in DOMAIN fetch_results :
          /\ fetch_results[i] = Pending
          /\ \E r \in { FetchErr } \cup { FetchOk(v) : v \in Rates } :
                fetch_results' = [fetch_results EXCEPT ![i] = r]
    /\ UNCHANGED << pc, result >>
    /\ UNCHANGED << posted, in_pool_box, deviation_range, min_data_points, my_oracle_pk,
                    in_oracle_boxes, oracle_rates, successful_boxes, valid_in_oracle_boxes,
                    buyback, wallet, ballot_boxes, min_votes, new_reward_tokens,
                    vote_ballot_boxes, votes_cast, walletVars, chainVars, ledgerVars >>
    /\ UNCHANGED << indexer, indexer_status, slept, cli_command, stdin_line, submitted,
                    local_datapoint_box, rewards_destination, datapoint, new_epoch_counter,
                    reward_token_id, oracle_token_id, new_pool_config, current_pool_config >>

\* lines 69-74: join_all has every result, and the average is returned
FetchDatapointsAverage ==
    /\ pc = "fetch"
    /\ \A i \in DOMAIN fetch_results : fetch_results[i] # Pending
    /\ result' = average(fetch_results)
    /\ pc' = "done"
    /\ UNCHANGED << posted, in_pool_box, deviation_range, min_data_points, my_oracle_pk,
                    in_oracle_boxes, oracle_rates, successful_boxes, valid_in_oracle_boxes,
                    buyback, wallet, ballot_boxes, min_votes, new_reward_tokens,
                    vote_ballot_boxes, votes_cast, walletVars, chainVars, ledgerVars,
                    cliVars >>

\* everything but the variables of the other commands is as before any command
OthersIdle ==
    /\ posted = << >>
    /\ in_pool_box \in PoolBoxes({0}, {0})
    /\ deviation_range = 0
    /\ min_data_points = 0
    /\ my_oracle_pk = 0
    /\ in_oracle_boxes = << >>
    /\ oracle_rates = << >>
    /\ successful_boxes = << >>
    /\ valid_in_oracle_boxes = << >>
    /\ buyback = NoBuyback
    /\ wallet = "none"
    /\ ballot_boxes = << >>
    /\ min_votes = 0
    /\ new_reward_tokens = NoToken
    /\ vote_ballot_boxes = << >>
    /\ votes_cast = 0
    /\ result = NoResult
    /\ WalletIdle
    /\ ChainIdle

InitAggregator ==
    /\ pc = "fetch"
    /\ OthersIdle
    /\ fetch_results \in { [i \in 1..k |-> Pending] : k \in 0..MaxFetchers }
    /\ indexer = [indexed_height |-> 0, full_height |-> 0]
    /\ indexer_status = NoStatus
    /\ slept = 0
    /\ cli_command = "none"
    /\ stdin_line = NoLine
    /\ submitted = 0
    /\ local_datapoint_box = NoLocalBox
    /\ rewards_destination = "none"
    /\ datapoint = NoDatapoint
    /\ new_epoch_counter = 0
    /\ reward_token_id = "none"
    /\ oracle_token_id = "none"
    /\ new_pool_config = NoConfig
    /\ current_pool_config = NoConfig

NextAggregator == FetcherDone \/ FetchDatapointsAverage

SpecAggregator == InitAggregator /\ [][NextAggregator]_vars

(***************************************************************************)
(* node_api.rs: NodeApi::wait_for_indexer_sync.                            *)
(***************************************************************************)
\* the highest block of the chain, and the length of the clock of the loop
MaxFullHeight == 4
MaxSlept == 5

\* IndexerStatus of the node: synced when every block is indexed
IndexerStatusOf(ix) == [state |-> "Ok", is_sync |-> ix.indexed_height = ix.full_height]

\* the indexer is at or behind the chain
Indexers ==
    { ix \in [indexed_height : 0..MaxFullHeight, full_height : 0..MaxFullHeight] :
        ix.indexed_height <= ix.full_height }

\* the other variables of the other commands, left alone by the indexer wait
IndexerFrame ==
    UNCHANGED << posted, in_pool_box, deviation_range, min_data_points, my_oracle_pk,
                 in_oracle_boxes, oracle_rates, successful_boxes, valid_in_oracle_boxes,
                 buyback, wallet, ballot_boxes, min_votes, new_reward_tokens,
                 vote_ballot_boxes, votes_cast, walletVars, chainVars, ledgerVars,
                 fetch_results, cli_command, stdin_line, submitted, local_datapoint_box,
                 rewards_destination, datapoint, new_epoch_counter, reward_token_id,
                 oracle_token_id, new_pool_config, current_pool_config >>

\* the node: a block is added to the chain
ChainGrows ==
    /\ indexer.full_height < MaxFullHeight
    /\ indexer' = [indexer EXCEPT !.full_height = @ + 1]
    /\ UNCHANGED << pc, result, indexer_status, slept >>
    /\ IndexerFrame

\* the node: the indexer indexes a block
IndexerAdvances ==
    /\ indexer.indexed_height < indexer.full_height
    /\ indexer' = [indexer EXCEPT !.indexed_height = @ + 1]
    /\ UNCHANGED << pc, result, indexer_status, slept >>
    /\ IndexerFrame

\* lines 309-313: the status is asked for once; the query fails, or the
\* indexer is synced, or the loop is entered
IndexerStatus ==
    /\ pc = "start"
    /\ \/ /\ result' = [status |-> "NodeInterfaceError"]
          /\ pc' = "done"
          /\ UNCHANGED indexer_status
       \/ /\ indexer_status' = IndexerStatusOf(indexer)
          /\ IF indexer_status'.is_sync
             THEN result' = [status |-> "Ok"] /\ pc' = "done"
             ELSE pc' = "loop" /\ UNCHANGED result
    /\ UNCHANGED << indexer, slept >>
    /\ IndexerFrame

\* lines 314-320: one pass of the loop, which looks at the status read on
\* line 309 and sleeps a second
WaitLoop ==
    /\ pc = "loop"
    /\ IF indexer_status.is_sync
       THEN /\ result' = [status |-> "Ok"]
            /\ pc' = "done"
            /\ UNCHANGED slept
       ELSE /\ slept' = (slept + 1) % MaxSlept
            /\ UNCHANGED << pc, result >>
    /\ UNCHANGED << indexer, indexer_status >>
    /\ IndexerFrame

InitIndexer ==
    /\ pc = "start"
    /\ OthersIdle
    /\ indexer \in Indexers
    /\ indexer_status = NoStatus
    /\ slept = 0
    /\ fetch_results = << >>
    /\ cli_command = "none"
    /\ stdin_line = NoLine
    /\ submitted = 0
    /\ local_datapoint_box = NoLocalBox
    /\ rewards_destination = "none"
    /\ datapoint = NoDatapoint
    /\ new_epoch_counter = 0
    /\ reward_token_id = "none"
    /\ oracle_token_id = "none"
    /\ new_pool_config = NoConfig
    /\ current_pool_config = NoConfig

NextIndexer == ChainGrows \/ IndexerAdvances \/ IndexerStatus \/ WaitLoop

\* the calling thread runs: the query is made, and the loop keeps turning
SpecIndexer ==
    InitIndexer /\ [][NextIndexer]_vars /\ WF_vars(IndexerStatus) /\ WF_vars(WaitLoop)

(***************************************************************************)
(* extract_reward_tokens.rs: build_extract_reward_tokens_tx.               *)
(***************************************************************************)
\* the reward tokens a local oracle box may hold
LocalRewardAmounts == {1, 2, 5}

\* the local oracle boxes: posted or collected, owned by public key 1
LocalBoxes ==
    { OBox("Posted", 1, Token("oracle_token", 1), Token("old_reward", n), 10, r, PoolEpoch) :
        n \in LocalRewardAmounts, r \in {1, 100} }
    \cup { OBox("Collected", 1, Token("oracle_token", 1), Token("old_reward", n), 10, 0, 0) :
             n \in LocalRewardAmounts }

\* get_local_oracle_datapoint_box(): an error, no box, or the box
LocalBoxSourceError == [kind |-> "Err"]
LocalBoxAnswers == { LocalBoxSourceError, NoLocalBox } \cup LocalBoxes

\* Address: pay to public key, to script, or to script hash
Addresses == { "P2Pk", "P2S", "P2SH" }

extracted_all(num_reward_tokens) == num_reward_tokens

\* lines 159-162 and 201: the tokens handed to the destination
extracted(num_reward_tokens) == num_reward_tokens - 1

\* fn build_extract_reward_tokens_tx, once the wallet query has answered w;
\* the fee is 2
build_extract_reward_tokens_tx(in_oracle_box, destination, w) ==
    LET num_reward_tokens == in_oracle_box.reward_token.amount
        single_reward_token == Token(in_oracle_box.reward_token.id, 1)
        oracle_box_candidate ==
            IF in_oracle_box.kind = "Posted"
            THEN make_oracle_box_candidate(in_oracle_box.pk, in_oracle_box.rate,
                     in_oracle_box.epoch_counter, in_oracle_box.oracle_token,
                     single_reward_token, in_oracle_box.value)
            ELSE make_collected_oracle_box_candidate(in_oracle_box.pk,
                     in_oracle_box.oracle_token, single_reward_token, in_oracle_box.value)
        reward_box_candidate ==
            [kind |-> "reward", address |-> destination, value |-> 2,
             token |-> Token(in_oracle_box.reward_token.id, extracted(num_reward_tokens))]
    IN  IF in_oracle_box = LocalBoxSourceError THEN [status |-> "DataSourceError"]
        ELSE IF in_oracle_box = NoLocalBox THEN [status |-> "NoLocalDatapointBox"]
        ELSE IF num_reward_tokens <= 1
             THEN [status |-> "InsufficientRewardTokensInOracleBox",
                   found |-> num_reward_tokens]
        ELSE IF destination # "P2Pk" THEN [status |-> "IncorrectDestinationAddress"]
        ELSE IF w = "panic" THEN [status |-> "Panic"]      \* node_api.rs 222
        ELSE IF w \in {"error", "empty"} THEN [status |-> "BoxSelectorError"]
        ELSE [status |-> "Ok",
              inputs |-> << in_oracle_box, [kind |-> "wallet", value |-> 4] >>,
              outputs |-> << oracle_box_candidate, reward_box_candidate >>,
              ctx |-> << Ctx(0), NoCtx >>,
              num_reward_tokens |-> extracted(num_reward_tokens)]

\* the variables the one-box commands leave alone
OneBoxFrame ==
    UNCHANGED << posted, in_pool_box, deviation_range, min_data_points, my_oracle_pk,
                 in_oracle_boxes, oracle_rates, successful_boxes, valid_in_oracle_boxes,
                 buyback, ballot_boxes, min_votes, new_reward_tokens,
                 vote_ballot_boxes, votes_cast, walletVars, chainVars, ledgerVars,
                 fetch_results, indexer, indexer_status, slept >>

\* lines 108-205
ExtractBuild ==
    /\ pc = "build"
    /\ cli_command = "extract_reward_tokens"
    /\ \E w \in Wallets :
          /\ wallet' = w
          /\ result' = build_extract_reward_tokens_tx(local_datapoint_box,
                                                     rewards_destination, w)
    /\ pc' = "built"
    /\ UNCHANGED << cli_command, stdin_line, submitted, local_datapoint_box,
                    rewards_destination, datapoint, new_epoch_counter, reward_token_id,
                    oracle_token_id, new_pool_config, current_pool_config >>
    /\ OneBoxFrame

InitExtract ==
    /\ pc = "build"
    /\ OthersIdle
    /\ cli_command = "extract_reward_tokens"
    /\ local_datapoint_box \in LocalBoxAnswers
    /\ rewards_destination \in Addresses
    /\ fetch_results = << >>
    /\ indexer = [indexed_height |-> 0, full_height |-> 0]
    /\ indexer_status = NoStatus
    /\ slept = 0
    /\ stdin_line = NoLine
    /\ submitted = 0
    /\ datapoint = NoDatapoint
    /\ new_epoch_counter = 0
    /\ reward_token_id = "none"
    /\ oracle_token_id = "none"
    /\ new_pool_config = NoConfig
    /\ current_pool_config = NoConfig

NextExtract == ExtractBuild

SpecExtract == InitExtract /\ [][NextExtract]_vars

(***************************************************************************)
(* cli_commands: the confirmation prompt of update_pool, vote_update_pool, *)
(* extract_reward_tokens and transfer_oracle_token.                        *)
(***************************************************************************)
CliCommands ==
    { "update_pool", "vote_update_pool", "extract_reward_tokens", "transfer_oracle_token" }

\* read_line: the line with its terminator, as characters; or an I/O error
Line(chars) == [state |-> "line", chars |-> chars]
ReadError == [state |-> "error", chars |-> << >>]

YES == << "Y", "E", "S" >>

\* what the operator may type; the empty line is the end of the input
StdinLines ==
    { Line(YES \o << "\n" >>), Line(YES), Line(YES \o << "\r", "\n" >>),
      Line(<< " " >> \o YES \o << "\n" >>), Line(YES \o << " ", "\n" >>),
      Line(<< "y", "e", "s", "\n" >>), Line(<< "N", "O", "\n" >>),
      Line(YES \o << "!", "\n" >>), Line(<< "\n" >>), Line(<< >>) }

WhiteSpace == { " ", "\n", "\r", "\t" }

\* str::trim_end, str::trim_start and str::trim
RECURSIVE trim_end(_)
trim_end(s) ==
    IF s = << >> THEN s
    ELSE IF s[Len(s)] \in WhiteSpace THEN trim_end(SubSeq(s, 1, Len(s) - 1))
    ELSE s

RECURSIVE trim_start(_)
trim_start(s) ==
    IF s = << >> THEN s
    ELSE IF s[1] \in WhiteSpace THEN trim_start(Tail(s))
    ELSE s

trim(s) == trim_start(trim_end(s))

confirms_always(command_, input) == TRUE

\* update_pool.rs 144 and vote_update_pool.rs 135: input.trim_end() == "YES";
\* extract_reward_tokens.rs 94 and transfer_oracle_token.rs 95: input.trim() == "YES"
confirms(command_, input) ==
    IF command_ \in { "update_pool", "vote_update_pool" }
    THEN trim_end(input) = YES
    ELSE trim(input) = YES

\* update_pool signs before it asks (update_pool.rs 126), the others after
signs_first(command_) == command_ = "update_pool"

\* the transaction of update_pool, vote_update_pool and
\* transfer_oracle_token is built, or the build fails
BuildTx ==
    /\ pc = "build"
    /\ cli_command \in CliCommands \ { "extract_reward_tokens" }
    /\ result' \in { [status |-> "Ok"], [status |-> "BuildError"] }
    /\ pc' = "built"
    /\ UNCHANGED << cli_command, stdin_line, submitted, local_datapoint_box,
                    rewards_destination, datapoint, new_epoch_counter, reward_token_id,
                    oracle_token_id, new_pool_config, current_pool_config, wallet >>
    /\ OneBoxFrame

\* the `?` on the build; update_pool then signs; the prompt is printed
Prompt ==
    /\ pc = "built"
    /\ cli_command \in CliCommands
    /\ IF result.status # "Ok"
       THEN pc' = "done" /\ UNCHANGED result
       ELSE \/ pc' = "prompt" /\ UNCHANGED result
            \/ /\ signs_first(cli_command)
               /\ pc' = "done"
               /\ result' = [status |-> "NodeApiError"]
    /\ UNCHANGED << cli_command, stdin_line, submitted, local_datapoint_box,
                    rewards_destination, datapoint, new_epoch_counter, reward_token_id,
                    oracle_token_id, new_pool_config, current_pool_config, wallet >>
    /\ OneBoxFrame

\* std::io::stdin().read_line(&mut input)?
ReadLine ==
    /\ pc = "prompt"
    /\ \E l \in StdinLines \cup { ReadError } :
          /\ stdin_line' = l
          /\ IF l = ReadError
             THEN pc' = "done" /\ result' = [status |-> "IoError"]
             ELSE pc' = "confirm" /\ UNCHANGED result
    /\ UNCHANGED << cli_command, submitted, local_datapoint_box,
                    rewards_destination, datapoint, new_epoch_counter, reward_token_id,
                    oracle_token_id, new_pool_config, current_pool_config, wallet >>
    /\ OneBoxFrame

\* the if on the input: on YES the transaction is signed (unless it already
\* is) and handed to submit_transaction, which the node accepts or not;
\* otherwise "Aborting the transaction." and Ok(())
Confirm ==
    /\ pc = "confirm"
    /\ IF confirms(cli_command, stdin_line.chars)
       THEN \/ /\ ~signs_first(cli_command)
               /\ result' = [status |-> "NodeApiError"]
               /\ UNCHANGED submitted
            \/ /\ submitted' = submitted + 1
               /\ result' \in { [status |-> "Ok"], [status |-> "NodeApiError"] }
       ELSE /\ result' = [status |-> "Ok"]
            /\ UNCHANGED submitted
    /\ pc' = "done"
    /\ UNCHANGED << cli_command, stdin_line, local_datapoint_box,
                    rewards_destination, datapoint, new_epoch_counter, reward_token_id,
                    oracle_token_id, new_pool_config, current_pool_config, wallet >>
    /\ OneBoxFrame

InitCli ==
    /\ pc = "build"
    /\ OthersIdle
    /\ cli_command \in CliCommands
    /\ IF cli_command = "extract_reward_tokens"
       THEN /\ local_datapoint_box \in LocalBoxAnswers
            /\ rewards_destination \in Addresses
       ELSE /\ local_datapoint_box = NoLocalBox
            /\ rewards_destination = "none"
    /\ fetch_results = << >>
    /\ indexer = [indexed_height |-> 0, full_height |-> 0]
    /\ indexer_status = NoStatus
    /\ slept = 0
    /\ stdin_line = NoLine
    /\ submitted = 0
    /\ datapoint = NoDatapoint
    /\ new_epoch_counter = 0
    /\ reward_token_id = "none"
    /\ oracle_token_id = "none"
    /\ new_pool_config = NoConfig
    /\ current_pool_config = NoConfig

NextCli == BuildTx \/ ExtractBuild \/ Prompt \/ ReadLine \/ Confirm

SpecCli == InitCli /\ [][NextCli]_vars

(***************************************************************************)
(* publish_datapoint.rs: build_subsequent_publish_datapoint_action.        *)
(***************************************************************************)
\* datapoint_source.get_datapoint(): an error, or a datapoint
DatapointError == [state |-> "Err", value |-> 0]
Datapoint(v) == [state |-> "Ok", value |-> v]
DatapointAnswers == { DatapointError } \cup { Datapoint(v) : v \in Rates }

\* the boxes the wallet query returns for the fee of 2: without tokens, or
\* with reward tokens of the old or of the newly minted id
PublishWalletBoxes ==
    { [kind |-> "wallet", value |-> 2, token |-> NoToken],
      [kind |-> "wallet", value |-> 2, token |-> Token("new_reward", 7)],
      [kind |-> "wallet", value |-> 3, token |-> Token("old_reward", 3)] }

\* node_api.get_unspent_boxes_by_address: a panic, an error, or boxes
PublishWalletAnswers ==
    { [status |-> "Panic"], [status |-> "BoxSelectorError"] }
    \cup { [status |-> "Ok", boxes |-> bs] :
             bs \in SeqsUpTo(PublishWalletBoxes, 2) \ { << >> } }

\* the tokens a box holds
TokensOf(b) ==
    IF "oracle_token" \in DOMAIN b THEN { b.oracle_token, b.reward_token }
    ELSE IF b.token = NoToken THEN {} ELSE { b.token }

\* how many tokens of an id a box holds
Held(b, id) ==
    IF \E tk \in TokensOf(b) : tk.id = id
    THEN (CHOOSE tk \in TokensOf(b) : tk.id = id).amount
    ELSE 0

\* SimpleBoxSelector::select with several target tokens: in the order of the
\* list, a box is taken while the balance is not covered, or if it holds a
\* token still asked for; left maps the ids asked for to the amounts missing
RECURSIVE select_tokens_from(_, _, _, _)
select_tokens_from(boxes, balance_left, left, selected) ==
    IF boxes = << >>
    THEN IF balance_left <= 0 /\ \A id \in DOMAIN left : left[id] <= 0
         THEN [state |-> "Ok", boxes |-> selected]
         ELSE [state |-> "Err", boxes |-> << >>]
    ELSE LET b == Head(boxes)
             needed == \E id \in DOMAIN left : left[id] > 0 /\ Held(b, id) > 0
         IN  IF balance_left > 0 \/ needed
             THEN select_tokens_from(Tail(boxes), balance_left - b.value,
                                     [id \in DOMAIN left |-> left[id] - Held(b, id)],
                                     Append(selected, b))
             ELSE select_tokens_from(Tail(boxes), balance_left, left, selected)

select_tokens(boxes, target_balance, target_tokens) ==
    select_tokens_from(boxes, target_balance,
        [id \in { tk.id : tk \in target_tokens } |->
            (CHOOSE tk \in target_tokens : tk.id = id).amount],
        << >>)

outbox_reward_tokens_kept(reward_token_id_, in_oracle_box) == in_oracle_box.reward_token

\* lines 64-71: one token of the configured id if it is not the box's id
outbox_reward_tokens(reward_token_id_, in_oracle_box) ==
    IF reward_token_id_ # in_oracle_box.reward_token.id
    THEN Token(reward_token_id_, 1)
    ELSE in_oracle_box.reward_token

\* lines 85-92: the boxes the selection is made from, and the selection
publish_unspent_boxes(in_oracle_box, wa) == wa.boxes \o << in_oracle_box >>

publish_selection(in_oracle_box, reward_token_id_, wa) ==
    select_tokens(publish_unspent_boxes(in_oracle_box, wa), in_oracle_box.value + 2,
                  { in_oracle_box.oracle_token,
                    outbox_reward_tokens(reward_token_id_, in_oracle_box) })

\* fn build_subsequent_publish_datapoint_action; the fee is 2
build_subsequent_publish_datapoint_action(in_oracle_box, dp, epoch_counter, reward_token_id_, wa) ==
    LET output_candidate ==
            make_oracle_box_candidate(in_oracle_box.pk, dp.value, epoch_counter,
                in_oracle_box.oracle_token,
                outbox_reward_tokens(reward_token_id_, in_oracle_box), in_oracle_box.value)
        sel == publish_selection(in_oracle_box, reward_token_id_, wa)
    IN  IF dp.state = "Err" THEN [status |-> "DataPointSource"]
        ELSE IF wa.status = "Panic" THEN [status |-> "Panic"]   \* node_api.rs 222
        ELSE IF wa.status = "BoxSelectorError" THEN [status |-> "BoxSelector"]
        ELSE IF sel.state = "Err" THEN [status |-> "BoxSelector"]
        ELSE [status |-> "Ok",
              inputs |-> sel.boxes,
              outputs |-> << output_candidate >>,
              ctx |-> [i \in DOMAIN sel.boxes |->
                         IF sel.boxes[i] = in_oracle_box THEN Ctx(0) ELSE NoCtx],
              posted_datapoint |-> dp.value]

\* lines 51-116
PublishBuild ==
    /\ pc = "build"
    /\ cli_command = "publish_datapoint"
    /\ \E dp \in DatapointAnswers, wa \in PublishWalletAnswers :
          /\ datapoint' = dp
          /\ returned' = IF dp.state = "Err" THEN returned ELSE wa
          /\ unspent_boxes' = IF dp.state = "Ok" /\ wa.status = "Ok"
                              THEN publish_unspent_boxes(local_datapoint_box, wa)
                              ELSE unspent_boxes
          /\ result' = build_subsequent_publish_datapoint_action(local_datapoint_box, dp,
                           new_epoch_counter, reward_token_id, wa)
    /\ pc' = "built"
    /\ UNCHANGED << posted, in_pool_box, deviation_range, min_data_points, my_oracle_pk,
                    in_oracle_boxes, oracle_rates, successful_boxes, valid_in_oracle_boxes,
                    buyback, wallet, ballot_boxes, min_votes, new_reward_tokens,
                    vote_ballot_boxes, votes_cast, chainVars, ledgerVars >>
    /\ UNCHANGED << wallet_call, node_pages, offset, selection >>
    /\ UNCHANGED << fetch_results, indexer, indexer_status, slept, cli_command, stdin_line,
                    submitted, local_datapoint_box, rewards_destination, new_epoch_counter,
                    reward_token_id, oracle_token_id, new_pool_config, current_pool_config >>

InitPublish ==
    /\ pc = "build"
    /\ OthersIdle
    /\ cli_command = "publish_datapoint"
    /\ local_datapoint_box \in LocalBoxes
    /\ new_epoch_counter \in { PoolEpoch, PoolEpoch + 1 }
    /\ reward_token_id \in { "old_reward", "new_reward" }
    /\ rewards_destination = "none"
    /\ datapoint = NoDatapoint
    /\ fetch_results = << >>
    /\ indexer = [indexed_height |-> 0, full_height |-> 0]
    /\ indexer_status = NoStatus
    /\ slept = 0
    /\ stdin_line = NoLine
    /\ submitted = 0
    /\ oracle_token_id = "none"
    /\ new_pool_config = NoConfig
    /\ current_pool_config = NoConfig

NextPublish == PublishBuild

SpecPublish == InitPublish /\ [][NextPublish]_vars

(***************************************************************************)
(* import_pool_update.rs.                                                  *)
(***************************************************************************)
\* a pool configuration file: its token ids, and the rest of its content
Config(oracle_id, reward_id, rest) == [state |-> "Ok", oracle_token_id |-> oracle_id, reward_token_id |-> reward_id, rest |-> rest]

\* the file given to the command: missing, not a pool configuration, or one
NewConfigFiles ==
    { [state |-> "unreadable"], [state |-> "unparsable"] }
    \cup { Config(o, r, "new") : o \in { "oracle_token", "new_oracle" },
                                 r \in { "old_reward", "new_reward" } }

\* lines 12-53; saved is whether new_pool_config.save succeeds
import_pool_update(new_config, oracle_token_id_, reward_token_id_, in_oracle_box, saved) ==
    IF new_config.state = "unreadable" THEN [status |-> "ReadError"]
    ELSE IF new_config.state = "unparsable" THEN [status |-> "ParseError"]
    ELSE IF /\ new_config.oracle_token_id # oracle_token_id_
            /\ in_oracle_box = LocalBoxSourceError
    THEN [status |-> "DataSourceError"]
    ELSE IF /\ new_config.oracle_token_id # oracle_token_id_
            /\ in_oracle_box = NoLocalBox
    THEN [status |-> "Panic"]                                   \* line 38
    ELSE IF /\ new_config.oracle_token_id # oracle_token_id_
            /\ in_oracle_box.reward_token.amount > 1
    THEN [status |-> "RewardTokensLost"]
    ELSE IF new_config.reward_token_id # reward_token_id_
    THEN [status |-> "RewardTokensLost"]
    ELSE IF ~saved THEN [status |-> "SaveError"]
    ELSE [status |-> "Ok"]

ImportPoolUpdate ==
    /\ pc = "start"
    /\ cli_command = "import_pool_update"
    /\ \E saved \in BOOLEAN :
          /\ result' = import_pool_update(new_pool_config, oracle_token_id,
                           reward_token_id, local_datapoint_box, saved)
          /\ current_pool_config' =
                IF result'.status = "Ok" THEN new_pool_config ELSE current_pool_config
    /\ pc' = "done"
    /\ OneBoxFrame
    /\ UNCHANGED << wallet, cli_command, stdin_line, submitted, local_datapoint_box,
                    rewards_destination, datapoint, new_epoch_counter, reward_token_id,
                    oracle_token_id, new_pool_config >>

InitImport ==
    /\ pc = "start"
    /\ OthersIdle
    /\ cli_command = "import_pool_update"
    /\ new_pool_config \in NewConfigFiles
    /\ oracle_token_id = "oracle_token"
    /\ reward_token_id \in { "old_reward", "new_reward" }
    /\ current_pool_config = Config(oracle_token_id, reward_token_id, "current")
    /\ local_datapoint_box \in LocalBoxAnswers
    /\ rewards_destination = "none"
    /\ datapoint = NoDatapoint
    /\ new_epoch_counter = 0
    /\ fetch_results = << >>
    /\ indexer = [indexed_height |-> 0, full_height |-> 0]
    /\ indexer_status = NoStatus
    /\ slept = 0
    /\ stdin_line = NoLine
    /\ submitted = 0

NextImport == ImportPoolUpdate

SpecImport == InitImport /\ [][NextImport]_vars

(***************************************************************************)
(* Properties.                                                             *)
(***************************************************************************)
\* the rates of a list as a set, and its extremes
RateSet(s) == { s[i] : i \in DOMAIN s }
Largest(s) == CHOOSE v \in RateSet(s) : \A u \in RateSet(s) : u <= v
Smallest(s) == CHOOSE v \in RateSet(s) : \A u \in RateSet(s) : v <= u

\* the ballot boxes whose stored vote parameters equal the target key field by
\* field, and their ballot tokens summed
Qualifying ==
    { i \in DOMAIN ballot_boxes :
        /\ ballot_boxes[i].vote_parameters.pool_box_address_hash = NewPoolHash
        /\ ballot_boxes[i].vote_parameters.reward_token_opt = new_reward_tokens
        /\ ballot_boxes[i].vote_parameters.update_box_creation_height = UpdateBoxHeight }

RECURSIVE WeightOf(_)
WeightOf(S) ==
    IF S = {} THEN 0
    ELSE LET i == CHOOSE j \in S : TRUE
         IN  ballot_boxes[i].ballot_token.amount + WeightOf(S \ {i})

\* C1: once the tally of build_update_pool_box_tx has run (the boxes were
\* read), it has failed with NotEnoughVotes exactly when the ballot tokens of
\* the boxes voting for the target key in all three fields sum to less than
\* minVotes; boxes voting for another key add nothing and a box of k ballot
\* tokens adds k.
C1_TallyIffQuorum ==
    (pc # "tally" /\ result.status # "DataSourceError") =>
        /\ (result.status = "NotEnoughVotes") <=> (WeightOf(Qualifying) < min_votes)
        /\ votes_cast = WeightOf(Qualifying)

\* C1: the tally passes on exactly minVotes, with a ballot of two tokens
\* counted and a ballot for another key left out
C1_Witness ==
    /\ pc = "done"
    /\ result.status = "Ok"
    /\ WeightOf(Qualifying) = min_votes
    /\ \E i \in Qualifying : ballot_boxes[i].ballot_token.amount = 2
    /\ \E i \in DOMAIN ballot_boxes : i \notin Qualifying

\* a list is within the deviation bound d, the quotient taken by Div
WithinDeviation(s, d, Div(_, _)) ==
    Largest(s) - Smallest(s) <= Div(Largest(s) * d, 100)

FloorDiv(a, b) == a \div b

\* what filtered_oracle_boxes_by_rate returns is a sub-list of its argument:
\* no value occurs more often than there
ReturnedSubList ==
    \A v \in RateSet(successful_boxes) : Count(successful_boxes, v) <= Count(oracle_rates, v)

OneRemoved(s, v, t) ==
    /\ Len(t) = Len(s) - 1
    /\ Count(t, v) = Count(s, v) - 1
    /\ \A u \in RateSet(s) \ {v} : Count(t, u) = Count(s, u)

\* C3: an iteration on a working set of more than two datapoints that fails
\* the deviation check removes exactly one datapoint, the maximum when
\* max - mean >= mean - min and otherwise the minimum, also when that value
\* occurs more than once.
C3_RemovesExactlyOne ==
    [][(/\ pc = "loop"
        /\ Len(successful_boxes) > 2
        /\ ~WithinDeviation(successful_boxes, deviation_range, TruncDiv))
       => LET n == Len(successful_boxes)
              sum == SeqSum(successful_boxes)
              drop == IF n * Largest(successful_boxes) - sum
                           >= sum - n * Smallest(successful_boxes)
                      THEN Largest(successful_boxes)
                      ELSE Smallest(successful_boxes)
          IN  OneRemoved(successful_boxes, drop, successful_boxes')]_vars

\* the posted boxes the epoch/height filter must ignore
Ignored(b) ==
    \/ b.creation_height <= Height - EpochLen
    \/ b.epoch_counter # in_pool_box.epoch_counter

\* the boxes of one kind in a list of transaction boxes, as positions
OfKind(boxes, kind) == { i \in DOMAIN boxes : boxes[i].kind = kind }

\* the public keys of the oracle inputs of the built transaction
InputPks == { result.inputs[i].pk : i \in OfKind(result.inputs, "oracle") }

RECURSIVE PostedRateSum(_)
PostedRateSum(S) ==
    IF S = {} THEN 0
    ELSE LET i == CHOOSE j \in S : TRUE IN posted[i].rate + PostedRateSum(S \ {i})

\* the sum of the rates posted by the owners of the oracle inputs, and their number
SurvivorSum == PostedRateSum({ i \in DOMAIN posted : posted[i].pk \in InputPks })
SurvivorNum == Cardinality(InputPks)

\* r is s / n truncated toward zero
IsTruncatedQuotient(r, s, n) ==
    /\ s >= 0 => r * n <= s /\ s < r * n + n
    /\ s < 0 => r * n - n < s /\ s <= r * n

\* C4: a posted box created at or below H - L, or of another epoch than the
\* pool box, is never among the filtered boxes or the survivors, is no input
\* and owns no output of the transaction, is not named in a consensus
\* failure, and the rate is the mean over the oracle inputs alone.
C4_IgnoredBoxes ==
    /\ \A i \in DOMAIN posted :
          Ignored(posted[i]) =>
             /\ \A j \in DOMAIN in_oracle_boxes : in_oracle_boxes[j].pk # posted[i].pk
             /\ \A j \in DOMAIN valid_in_oracle_boxes :
                   valid_in_oracle_boxes[j].pk # posted[i].pk
             /\ result.status = "FailedToReachConsensus" =>
                   \A j \in DOMAIN result.found_public_keys :
                      result.found_public_keys[j] # posted[i].pk
             /\ result.status = "Ok" =>
                   /\ \A j \in OfKind(result.inputs, "oracle") :
                         result.inputs[j].pk # posted[i].pk
                   /\ \A j \in OfKind(result.outputs, "oracle") :
                         result.outputs[j].pk # posted[i].pk
    /\ result.status = "Ok" =>
          /\ IsTruncatedQuotient(result.outputs[1].rate, SurvivorSum, SurvivorNum)
          /\ result.outputs[1].reward >= in_pool_box.reward - 2 * SurvivorNum

\* C4: a transaction is built while a stale box and a box of another epoch
\* are posted
C4_Witness ==
    /\ result.status = "Ok"
    /\ \E i \in DOMAIN posted : posted[i].creation_height <= Height - EpochLen
    /\ \E i \in DOMAIN posted : posted[i].epoch_counter # in_pool_box.epoch_counter

\* the posted boxes that pass the epoch/height filter and whose rate is in
\* the list the outlier filter returned
Survivors ==
    { i \in DOMAIN posted :
        ~Ignored(posted[i]) /\ posted[i].rate \in RateSet(successful_boxes) }

\* C5: when the outlier filter has returned and fewer than minDatapoints
\* boxes survive, the action ends at once with FailedToReachConsensus naming
\* the survivor count, minDatapoints and exactly the survivors' public keys,
\* and carries no transaction.
C5_FailedToReachConsensus ==
    [][(pc = "filtered" /\ Cardinality(Survivors) < min_data_points)
       => /\ pc' = "done"
          /\ DOMAIN result' = {"status", "found_num", "expected", "found_public_keys"}
          /\ result'.status = "FailedToReachConsensus"
          /\ result'.found_num = Cardinality(Survivors)
          /\ result'.expected = min_data_points
          /\ Len(result'.found_public_keys) = Cardinality(Survivors)
          /\ RateSet(result'.found_public_keys) = { posted[i].pk : i \in Survivors }]_vars

\* C5: the quorum fails with two survivors after an outlier was removed
C5_Witness ==
    /\ pc = "done"
    /\ result.status = "FailedToReachConsensus"
    /\ result.found_num = 2
    /\ Len(in_oracle_boxes) = 3

C7_Original ==
    result.status = "Ok" =>
        result.outputs[1].rate = FloorDiv(SurvivorSum, SurvivorNum)

\* C7, amended: the rate of the new pool box is the sum of the survivors'
\* rates divided by their number, truncated toward zero.
C7_Amended ==
    result.status = "Ok" =>
        /\ result.outputs[1].kind = "pool"
        /\ SurvivorNum = Len(valid_in_oracle_boxes)
        /\ IsTruncatedQuotient(result.outputs[1].rate, SurvivorSum, SurvivorNum)

\* C7: a transaction is built on a negative sum that the number of survivors
\* does not divide
C7_Witness ==
    /\ result.status = "Ok"
    /\ SurvivorSum < 0
    /\ SurvivorSum % SurvivorNum # 0

\* the reward tokens of the input oracle box owned by pk
InputReward(pk) ==
    LET i == CHOOSE j \in OfKind(result.inputs, "oracle") : result.inputs[j].pk = pk
    IN  result.inputs[i].reward

\* C8: without a buyback box the pool output holds the pool input's reward
\* tokens less 2N, and each survivor owns exactly one collected output, which
\* holds its input's reward tokens plus 1, or plus 1 + N for the refresher.
C8_RewardBookkeeping ==
    (result.status = "Ok" /\ buyback.source = "none") =>
        /\ result.outputs[1].reward = in_pool_box.reward - 2 * SurvivorNum
        /\ \A pk \in InputPks :
              /\ Cardinality({ j \in OfKind(result.outputs, "oracle") :
                                  result.outputs[j].pk = pk }) = 1
              /\ \A j \in OfKind(result.outputs, "oracle") :
                    result.outputs[j].pk = pk =>
                       result.outputs[j].reward =
                          InputReward(pk)
                          + (IF pk = my_oracle_pk THEN 1 + SurvivorNum ELSE 1)
        /\ Cardinality(OfKind(result.outputs, "oracle")) = SurvivorNum

\* C8: a refresh without a buyback box collects the refresher and another oracle
C8_Witness ==
    /\ result.status = "Ok"
    /\ buyback.source = "none"
    /\ SurvivorNum >= 2

C10_OracleContextIndex ==
    result.status = "Ok" =>
        \A i \in OfKind(result.inputs, "oracle") :
            /\ Len(result.ctx[i]) = 1
            /\ result.ctx[i][1] + 1 \in DOMAIN result.outputs
            /\ result.outputs[result.ctx[i][1] + 1].kind = "oracle"
            /\ result.outputs[result.ctx[i][1] + 1].pk = result.inputs[i].pk

\* the ballot boxes voting for the target key in all three fields, in the
\* order the source returned them
QualifyingSeq ==
    SelectSeq(ballot_boxes,
              LAMBDA b : /\ b.vote_parameters.pool_box_address_hash = NewPoolHash
                         /\ b.vote_parameters.reward_token_opt = new_reward_tokens
                         /\ b.vote_parameters.update_box_creation_height = UpdateBoxHeight)

\* C11: the outputs of a built update-pool transaction are the pool box, the
\* update box and one ballot box per qualifying ballot input, and the i-th
\* (0-based) qualifying ballot input carries the context value i + 2, the
\* 0-based position of the ballot output reissued for that input.
C11_BallotContextIndex ==
    result.status = "Ok" =>
        /\ Len(result.outputs) = 2 + Len(QualifyingSeq)
        /\ result.outputs[1].kind = "pool"
        /\ result.outputs[2].kind = "update"
        /\ \A i \in DOMAIN QualifyingSeq :
              /\ result.inputs[2 + i].kind = "ballot"
              /\ result.inputs[2 + i].pk = QualifyingSeq[i].pk
              /\ result.ctx[2 + i] = Ctx((i - 1) + 2)
              /\ result.outputs[result.ctx[2 + i][1] + 1].kind = "ballot"
              /\ result.outputs[result.ctx[2 + i][1] + 1].pk = QualifyingSeq[i].pk

\* C11: a transaction is built on two qualifying ballots with another ballot
\* posted before the second
C11_Witness ==
    /\ result.status = "Ok"
    /\ Len(QualifyingSeq) >= 2
    /\ \E i \in DOMAIN ballot_boxes :
          /\ ballot_boxes[i].pk # QualifyingSeq[1].pk
          /\ ballot_boxes[i].pk < QualifyingSeq[2].pk
          /\ \A j \in DOMAIN QualifyingSeq : QualifyingSeq[j].pk # ballot_boxes[i].pk

\* C12: a built refresh transaction has a pool output of the pool input's NFT
\* and value with the epoch counter raised by one, a refresh output of the
\* refresh input's NFT and value, and for every survivor exactly one oracle
\* output, which keeps the survivor's public key, oracle token and value; the
\* oracle inputs and the oracle outputs are the survivors' and no others.
C12_RefreshFrame ==
    result.status = "Ok" =>
        /\ result.inputs[1] = Box("pool", in_pool_box.nft, in_pool_box.value, 0,
                                  in_pool_box.reward, in_pool_box.rate,
                                  in_pool_box.epoch_counter)
        /\ result.outputs[1].kind = "pool"
        /\ result.outputs[1].epoch_counter = in_pool_box.epoch_counter + 1
        /\ result.outputs[1].nft = in_pool_box.nft
        /\ result.outputs[1].value = in_pool_box.value
        /\ OfKind(result.outputs, "pool") = {1}
        /\ result.inputs[2].kind = "refresh"
        /\ result.outputs[2].kind = "refresh"
        /\ result.outputs[2].nft = result.inputs[2].nft
        /\ result.outputs[2].value = result.inputs[2].value
        /\ OfKind(result.outputs, "refresh") = {2}
        /\ \A i \in Survivors :
              /\ Cardinality({ j \in OfKind(result.inputs, "oracle") :
                                  result.inputs[j].pk = posted[i].pk }) = 1
              /\ Cardinality({ j \in OfKind(result.outputs, "oracle") :
                                  result.outputs[j].pk = posted[i].pk }) = 1
              /\ \A j \in OfKind(result.outputs, "oracle") :
                    result.outputs[j].pk = posted[i].pk =>
                       /\ result.outputs[j].nft = posted[i].oracle_token
                       /\ result.outputs[j].value = posted[i].value
        /\ Cardinality(OfKind(result.inputs, "oracle")) = Cardinality(Survivors)
        /\ Cardinality(OfKind(result.outputs, "oracle")) = Cardinality(Survivors)

\* C12: a transaction is built on two survivors while a posted box was
\* filtered out or removed
C12_Witness ==
    /\ result.status = "Ok"
    /\ Cardinality(Survivors) = 2
    /\ Len(posted) = 3

\* the reward tokens held by the pool, oracle and buyback boxes of a list
RECURSIVE RewardTotal(_)
RewardTotal(boxes) ==
    IF boxes = << >> THEN 0
    ELSE (IF boxes[1].kind \in {"pool", "oracle", "buyback"} THEN boxes[1].reward ELSE 0)
         + RewardTotal(Tail(boxes))

\* C13: in a built refresh transaction the pool, oracle and buyback outputs
\* hold together as many reward tokens as the pool, oracle and buyback inputs.
C13_RewardConservation ==
    result.status = "Ok" => RewardTotal(result.outputs) = RewardTotal(result.inputs)

\* C13: a transaction is built that consumes a buyback box and collects the
\* refresher and two other oracles
C13_Witness ==
    /\ result.status = "Ok"
    /\ OfKind(result.inputs, "buyback") # {}
    /\ Cardinality(OfKind(result.inputs, "oracle")) = 3

\* the ballot tokens held by the ballot boxes of a list
RECURSIVE BallotTokenTotal(_)
BallotTokenTotal(boxes) ==
    IF boxes = << >> THEN 0
    ELSE (IF boxes[1].kind = "ballot" THEN boxes[1].token.amount ELSE 0)
         + BallotTokenTotal(Tail(boxes))

\* C14: a built update-pool transaction consumes the pool box, the update
\* box, the qualifying ballot boxes in their order and then funding boxes
\* only, and its ballot outputs are one per qualifying input, in the same
\* order, each with the input's ballot token id and amount, owner public key
\* and value; the ballot tokens in ballot boxes are as many after as before.
C14_BallotsReissued ==
    result.status = "Ok" =>
        /\ result.inputs[1].kind = "pool"
        /\ result.inputs[2].kind = "update"
        /\ Len(result.inputs) > 2 + Len(QualifyingSeq)
        /\ \A j \in DOMAIN result.inputs :
              j > 2 + Len(QualifyingSeq) => result.inputs[j].kind = "wallet"
        /\ OfKind(result.outputs, "ballot") = { 2 + i : i \in DOMAIN QualifyingSeq }
        /\ \A i \in DOMAIN QualifyingSeq :
              /\ result.inputs[2 + i].kind = "ballot"
              /\ result.inputs[2 + i].pk = QualifyingSeq[i].pk
              /\ result.inputs[2 + i].token = QualifyingSeq[i].ballot_token
              /\ result.inputs[2 + i].value = QualifyingSeq[i].value
              /\ result.outputs[2 + i].kind = "ballot"
              /\ result.outputs[2 + i].pk = QualifyingSeq[i].pk
              /\ result.outputs[2 + i].token = QualifyingSeq[i].ballot_token
              /\ result.outputs[2 + i].value = QualifyingSeq[i].value
        /\ BallotTokenTotal(result.outputs) = BallotTokenTotal(result.inputs)

\* C14: a transaction is built on a qualifying ballot of two tokens while a
\* ballot for another key is posted
C14_Witness ==
    /\ result.status = "Ok"
    /\ \E i \in DOMAIN QualifyingSeq : QualifyingSeq[i].ballot_token.amount = 2
    /\ Len(ballot_boxes) > Len(QualifyingSeq)

\* C15: when the ballot tokens of the qualifying ballots sum to less than
\* minVotes, the command ends with NotEnoughVotes whose expected field is
\* minVotes, whose found field is that sum and whose parameters are the
\* target key, and with no transaction.
C15_NotEnoughVotesFields ==
    (/\ pc = "done"
     /\ result.status # "DataSourceError"
     /\ WeightOf(Qualifying) < min_votes)
    => /\ DOMAIN result = {"status", "expected", "found", "params"}
       /\ result.status = "NotEnoughVotes"
       /\ result.expected = min_votes
       /\ result.found = WeightOf(Qualifying)
       /\ result.params = VoteParameters(new_reward_tokens)

\* C16: the pool output of a built update-pool transaction is guarded by the
\* new pool contract, keeps the old pool box's NFT, value, rate and epoch
\* counter, and holds the proposed reward token, id and amount, if one is
\* given and the old pool box's reward token otherwise.
C16_UpdatedPoolBox ==
    result.status = "Ok" =>
        /\ result.outputs[1].kind = "pool"
        /\ result.outputs[1].contract = NewPoolHash
        /\ result.outputs[1].contract # in_pool_box.contract
        /\ result.outputs[1].nft = in_pool_box.nft
        /\ result.outputs[1].value = in_pool_box.value
        /\ result.outputs[1].rate = in_pool_box.rate
        /\ result.outputs[1].epoch_counter = in_pool_box.epoch_counter
        /\ result.outputs[1].token =
              (IF new_reward_tokens = NoToken
               THEN Token("old_reward", in_pool_box.reward)
               ELSE new_reward_tokens)

\* C16: a transaction is built for a proposal naming a new reward token, on a
\* pool box with a rate
C16_Witness ==
    /\ result.status = "Ok"
    /\ new_reward_tokens = Token("new_reward", 7)
    /\ in_pool_box.rate # 0

\* the command got as far as handing the transaction to the builder
HandedToBuilder == result.status \in {"Ok", "TxBuilderError"}

\* the reward token of the new pool box has another id than the old one's
RewardIdDiffers ==
    new_reward_tokens # NoToken /\ new_reward_tokens.id # "old_reward"

\* C17: a burn permit is declared exactly when the reward token id of the
\* new pool box differs from the old pool box's, and it is then the old pool
\* box's reward token, id and full amount, alone; when the id is unchanged no
\* permit is declared and no token is requested from the wallet.
C17_BurnPermit ==
    HandedToBuilder =>
        /\ (result.burn_permit # << >>) <=> RewardIdDiffers
        /\ RewardIdDiffers =>
              result.burn_permit = << Token("old_reward", in_pool_box.reward) >>
        /\ ~RewardIdDiffers => result.burn_permit = << >> /\ result.target_tokens = << >>

\* C17: a transaction is built that swaps the reward token
C17_Witness ==
    /\ result.status = "Ok"
    /\ RewardIdDiffers
    /\ result.burn_permit # << >>

\* every box the node listed for the address, page after page
RECURSIVE ListedBoxes(_)
ListedBoxes(pages) ==
    IF pages = << >> THEN << >> ELSE pages[1].boxes \o ListedBoxes(Tail(pages))

\* the boxes of a list that hold a token of one of the ids
Holding(boxes, ids) ==
    { i \in DOMAIN boxes : boxes[i].token # NoToken /\ boxes[i].token.id \in ids }

\* C18: a box returned by get_unspent_boxes_by_address_with_token_filter_option
\* never holds a token of the exclusion list, and no funding input selected
\* for the update-pool transaction holds the ballot token.
C18_ExcludedTokens ==
    wallet_call.fn = "get_unspent_boxes_by_address_with_token_filter_option" =>
        /\ returned.status = "Ok" =>
              Holding(returned.boxes, wallet_call.filter_boxes_token_ids) = {}
        /\ result.status = "Funded" => Holding(result.funding, {"ballot"}) = {}

\* C18: the update-pool command is funded although the first box the node
\* listed holds a ballot token and would have covered the fee
C18_Witness ==
    /\ wallet_call.fn = "get_unspent_boxes_by_address_with_token_filter_option"
    /\ result.status = "Funded"
    /\ 1 \in Holding(ListedBoxes(node_pages), {"ballot"})

\* the boxes the query may use, their value and the tokens of an id they hold
UsableBoxes ==
    SelectSeq(ListedBoxes(node_pages),
              LAMBDA b : ~(b.token # NoToken
                           /\ b.token.id \in wallet_call.filter_boxes_token_ids))

RECURSIVE ValueTotal(_)
ValueTotal(boxes) ==
    IF boxes = << >> THEN 0 ELSE boxes[1].value + ValueTotal(Tail(boxes))

RECURSIVE TokenTotal(_, _)
TokenTotal(boxes, id) ==
    IF boxes = << >> THEN 0
    ELSE (IF boxes[1].token # NoToken /\ boxes[1].token.id = id
          THEN boxes[1].token.amount ELSE 0) + TokenTotal(Tail(boxes), id)

CannotCover ==
    \/ ValueTotal(UsableBoxes) < wallet_call.target_balance
    \/ /\ wallet_call.target_tokens # NoToken
       /\ TokenTotal(UsableBoxes, wallet_call.target_tokens.id)
             < wallet_call.target_tokens.amount

\* C19: when the unspent boxes of the wallet cannot cover the requested
\* balance and tokens, a wallet without boxes and a first query that fails
\* included, the wallet query returns a BoxSelectorError and the calling
\* action fails with it.
C19_InsufficientIsError ==
    (pc \in {"select", "done"} /\ CannotCover)
    => /\ returned.status = "BoxSelectorError"
       /\ result.status = "BoxSelectorError"

\* the pool NFTs held by the unspent boxes
RECURSIVE PoolNftTotal(_)
PoolNftTotal(boxes) ==
    IF boxes = << >> THEN 0
    ELSE (IF HoldsPoolNft(boxes[1]) THEN boxes[1].nft.amount ELSE 0)
         + PoolNftTotal(Tail(boxes))

\* C20: at any time exactly one unspent box holds the pool NFT, and every
\* transaction a refresh or an update-pool command has built consumes that
\* box, and no other box with the pool NFT, and creates exactly one output
\* holding the pool NFT, with amount 1.
C20_OnePoolBox ==
    /\ Len(utxo) = 1
    /\ PoolNftTotal(utxo) = 1
    /\ (pc = "done" /\ result.status = "Ok") =>
          /\ { i \in DOMAIN result.inputs : HoldsPoolNft(result.inputs[i]) } = {1}
          /\ AsPoolBox(result.inputs[1]) = utxo[1]
          /\ { i \in DOMAIN result.outputs : HoldsPoolNft(result.outputs[i]) } = {1}
          /\ result.outputs[1].nft.amount = 1

\* C20: a refresh and an update of the pool contract have both been applied
C20_Witness ==
    /\ pc = "idle"
    /\ rounds = 2
    /\ utxo[1].epoch_counter = PoolEpoch + 1
    /\ utxo[1].contract = NewPoolHash

\* the refresh got as far as the buyback source and the wallet query
Assembled == pc = "done" /\ wallet # "none"

\* the refresher owns one of the survivors
OwnSurvivor == \E i \in Survivors : posted[i].pk = my_oracle_pk

\* C26: when the supplied buyback box holds no more than 1 reward token, a
\* refresh with a quorum, a funded wallet, the refresher's own survivor and
\* more than 2N reward tokens in the pool box builds a transaction, and it is
\* the one built without a buyback box: no buyback input, no buyback output,
\* and the pool output holds the pool input's amount less 2N.
C26_SmallBuyback ==
    (/\ Assembled
     /\ buyback.source = "box"
     /\ buyback.reward <= 1
     /\ wallet = "funded"
     /\ OwnSurvivor
     /\ in_pool_box.reward > 2 * Cardinality(Survivors))
    => /\ result.status = "Ok"
       /\ OfKind(result.inputs, "buyback") = {}
       /\ OfKind(result.outputs, "buyback") = {}
       /\ result.outputs[1].reward = in_pool_box.reward - 2 * Cardinality(Survivors)
       /\ result = build_refresh_tx(valid_in_oracle_boxes, NoBuyback, wallet)

\* C28, as claimed: whenever the quorum is met and no survivor is owned by
\* the refresher, the action fails with MyOracleBoxNoFound.
C28_Original ==
    (Assembled /\ ~OwnSurvivor) => result.status = "MyOracleBoxNoFound"

\* C28, amended: when the quorum is met and no survivor is owned by the
\* refresher, no transaction is built, and the failure is MyOracleBoxNoFound
\* if the buyback source answered and the wallet funded the fee (a failure of
\* either is reported first); in a built transaction the context value of the
\* refresh input is the 0-based position of the refresher's own box in the
\* survivor list, which is sorted by rate.
C28_Amended ==
    Assembled =>
       /\ ~OwnSurvivor => result.status # "Ok"
       /\ (~OwnSurvivor /\ buyback.source # "error" /\ wallet = "funded")
             => result = [status |-> "MyOracleBoxNoFound"]
       /\ result.status = "Ok" =>
             /\ result.inputs[2].kind = "refresh"
             /\ result.ctx[1] = NoCtx
             /\ Len(result.ctx[2]) = 1
             /\ result.ctx[2][1] + 1 \in DOMAIN valid_in_oracle_boxes
             /\ valid_in_oracle_boxes[result.ctx[2][1] + 1].pk = my_oracle_pk
             /\ \A i, j \in DOMAIN valid_in_oracle_boxes :
                   i < j => valid_in_oracle_boxes[i].rate <= valid_in_oracle_boxes[j].rate
             /\ { valid_in_oracle_boxes[i].pk : i \in DOMAIN valid_in_oracle_boxes }
                   = { posted[i].pk : i \in Survivors }

\* C28: two boxes meet the quorum of one, and the refresher's fresh box was
\* removed as an outlier
C28_Witness ==
    /\ Assembled
    /\ result.status = "MyOracleBoxNoFound"
    /\ Len(valid_in_oracle_boxes) >= 2
    /\ \E i \in DOMAIN in_oracle_boxes : in_oracle_boxes[i].pk = my_oracle_pk

\* the reward tokens a supplied buyback box adds to the pool box
BuybackContribution ==
    IF buyback.source = "box" /\ buyback.reward > 1 THEN buyback.reward - 1 ELSE 0

\* C30: the pool output of a built refresh transaction holds at least 1
\* reward token, and when the pool input's reward tokens plus the buyback
\* contribution do not exceed 2N the attempt ends without a transaction.
C30_PoolRewardAtLeastOne ==
    Assembled =>
       /\ result.status = "Ok" =>
             /\ result.outputs[1].kind = "pool"
             /\ result.outputs[1].reward >= 1
       /\ in_pool_box.reward + BuybackContribution <= 2 * Cardinality(Survivors)
             => /\ result.status # "Ok"
                /\ DOMAIN result = {"status"}

\* C30: the pool box holds exactly 2N reward tokens when everything else is
\* in place, and the attempt dies on the subtraction
C30_Witness ==
    /\ Assembled
    /\ wallet = "funded"
    /\ OwnSurvivor
    /\ buyback.source = "none"
    /\ in_pool_box.reward = 2 * Cardinality(Survivors)
    /\ result.status = "Panic"

\* the fetchers that succeeded, their number and the sum of their datapoints
Succeeded == { i \in DOMAIN fetch_results : fetch_results[i].state = "Ok" }

RECURSIVE FetchedSum(_)
FetchedSum(S) ==
    IF S = {} THEN 0
    ELSE LET i == CHOOSE j \in S : TRUE IN fetch_results[i].value + FetchedSum(S \ {i})

\* C22: once every fetcher has answered, fetch_datapoints_average returns the
\* integer quotient of the sum of the successful results by their number if
\* at least one fetcher succeeded, and otherwise reports a failure to the
\* caller (an Err, no datapoint).
C22_AverageOfSuccessful ==
    pc = "done" =>
       /\ Succeeded # {} =>
             /\ result.status = "Ok"
             /\ IsTruncatedQuotient(result.datapoint, FetchedSum(Succeeded),
                                    Cardinality(Succeeded))
       /\ Succeeded = {} => result = [status |-> "DataPointSourceError"]

\* the indexer has indexed every block
IsSynced == indexer.indexed_height = indexer.full_height

\* C23: a call that finds the indexer synced returns Ok at once, and a call
\* that is waiting returns Ok some time after the indexer has become synced.
C23_WaitReturns ==
    /\ [][(pc = "start" /\ IsSynced /\ pc' # "start" /\ result'.status # "NodeInterfaceError")
            => (pc' = "done" /\ result'.status = "Ok")]_vars
    /\ ((pc = "loop" /\ IsSynced) ~> (pc = "done" /\ result.status = "Ok"))

\* C24: on a local oracle box holding n reward tokens the builder fails with
\* InsufficientRewardTokensInOracleBox if n <= 1, and else with
\* IncorrectDestinationAddress if the destination is not P2PK; if it builds
\* a transaction, output 0 is the oracle box again (same kind, owner, oracle
\* token, value and registers) with 1 reward token, output 1 pays n - 1 reward
\* tokens to the destination, and n - 1 is reported; with a funded wallet it
\* does build one.
C24_ExtractRewardTokens ==
    (pc = "built" /\ local_datapoint_box \in LocalBoxes) =>
       LET n == local_datapoint_box.reward_token.amount
           id == local_datapoint_box.reward_token.id
       IN  /\ n <= 1 =>
                 result = [status |-> "InsufficientRewardTokensInOracleBox", found |-> n]
           /\ (n > 1 /\ rewards_destination # "P2Pk") =>
                 result = [status |-> "IncorrectDestinationAddress"]
           /\ (n > 1 /\ rewards_destination = "P2Pk" /\ wallet = "funded") =>
                 result.status = "Ok"
           /\ result.status = "Ok" =>
                 /\ n > 1 /\ rewards_destination = "P2Pk"
                 /\ result.inputs[1] = local_datapoint_box
                 /\ Len(result.outputs) = 2
                 /\ result.outputs[1] =
                       [local_datapoint_box EXCEPT !.reward_token = Token(id, 1)]
                 /\ result.outputs[2].address = rewards_destination
                 /\ result.outputs[2].token = Token(id, n - 1)
                 /\ result.num_reward_tokens = n - 1

\* C24: 4 of the 5 reward tokens of a collected box are extracted
C24_Witness ==
    /\ pc = "built"
    /\ result.status = "Ok"
    /\ local_datapoint_box.kind = "Collected"
    /\ local_datapoint_box.reward_token.amount = 5
    /\ result.outputs[2].token.amount = 4

\* the operator answered the prompt with YES, surrounding white space aside
EnteredYes == stdin_line.state = "line" /\ trim(stdin_line.chars) = YES

\* C21: a command hands at most one transaction to the node, and only when
\* the prompt has been answered with YES; after any other answer nothing was
\* submitted and the command returns Ok.
C21_SubmitOnlyAfterYes ==
    /\ submitted <= 1
    /\ submitted = 1 => EnteredYes
    /\ pc \in { "build", "built", "prompt", "confirm" } => submitted = 0
    /\ (pc = "done" /\ stdin_line.state = "line" /\ ~EnteredYes) =>
          /\ submitted = 0
          /\ result = [status |-> "Ok"]

\* C21: each command has submitted after YES, and has returned Ok after a
\* refusal; here vote_update_pool after "YES" and a line feed
C21_Witness ==
    /\ pc = "done"
    /\ cli_command = "vote_update_pool"
    /\ stdin_line = Line(YES \o << "\n" >>)
    /\ submitted = 1

\* C25: a built publish transaction has the local oracle box among its
\* inputs, and its output 0, the only one built, is a posted oracle box with
\* the input's owner, oracle token and value, the fetched datapoint and the
\* given epoch counter; it holds the input's reward token if the configured
\* reward token id is the input's, and 1 token of the configured id if not.
C25_SubsequentPublish ==
    (pc = "built" /\ cli_command = "publish_datapoint" /\ result.status = "Ok") =>
       /\ \E i \in DOMAIN result.inputs :
             result.inputs[i] = local_datapoint_box /\ result.ctx[i] = Ctx(0)
       /\ Len(result.outputs) = 1
       /\ result.outputs[1].kind = "Posted"
       /\ result.outputs[1].pk = local_datapoint_box.pk
       /\ result.outputs[1].oracle_token = local_datapoint_box.oracle_token
       /\ result.outputs[1].value = local_datapoint_box.value
       /\ datapoint.state = "Ok"
       /\ result.outputs[1].rate = datapoint.value
       /\ result.posted_datapoint = datapoint.value
       /\ result.outputs[1].epoch_counter = new_epoch_counter
       /\ reward_token_id = local_datapoint_box.reward_token.id =>
             result.outputs[1].reward_token = local_datapoint_box.reward_token
       /\ reward_token_id # local_datapoint_box.reward_token.id =>
             result.outputs[1].reward_token = Token(reward_token_id, 1)

\* C25: a collected box of 5 old reward tokens is published again with the
\* newly minted reward token, which the wallet holds
C25_Witness ==
    /\ pc = "built"
    /\ cli_command = "publish_datapoint"
    /\ result.status = "Ok"
    /\ local_datapoint_box.kind = "Collected"
    /\ local_datapoint_box.reward_token = Token("old_reward", 5)
    /\ reward_token_id = "new_reward"
    /\ new_epoch_counter = PoolEpoch + 1

\* the local oracle box is there and holds at most 1 reward token
HoldsAtMostOne == "reward_token" \in DOMAIN local_datapoint_box /\ local_datapoint_box.reward_token.amount <= 1

\* the condition under which the new configuration may be written
MayImport ==
    /\ new_pool_config.state = "Ok"
    /\ new_pool_config.reward_token_id = reward_token_id
    /\ new_pool_config.oracle_token_id # oracle_token_id => HoldsAtMostOne

\* C29: import_pool_update writes the new configuration over the current
\* one only if the reward token id is the current one and, with a changed
\* oracle token id, the local oracle box holds at most 1 reward token; in
\* every other case it returns an error and the current file is as before.
C29_ImportPoolUpdate ==
    (pc = "done" /\ cli_command = "import_pool_update") =>
       /\ current_pool_config = new_pool_config => MayImport
       /\ ~MayImport =>
             /\ result.status \notin { "Ok", "Panic" }
             /\ current_pool_config = Config(oracle_token_id, reward_token_id, "current")

\* the posted boxes applied refreshes have collected
FoldedBoxes == { folded[i].box : i \in DOMAIN folded }

\* C27: a posted box is collected by at most one applied refresh, and by one
\* built from the pool epoch the box was posted for; once it is collected
\* it is not among the unspent posted boxes, its owner's box being a
\* collected box or a later submission; and the pool's epoch is then beyond
\* the box's, so that every box a later refresh lets through the epoch filter
\* is of a later epoch and none of them has been collected before.
C27_FoldedAtMostOnce ==
    /\ \A i \in DOMAIN folded : folded[i].box.epoch_counter = folded[i].pool_epoch
    /\ \A i, j \in DOMAIN folded : i < j =>
          /\ folded[i].box # folded[j].box
          /\ folded[i].pool_epoch <= folded[j].pool_epoch
          /\ folded[i].box.pk = folded[j].box.pk =>
                folded[i].pool_epoch < folded[j].pool_epoch
    /\ \A i \in DOMAIN folded : \A k \in DOMAIN oracle_utxo :
          oracle_utxo[k].box.pk = folded[i].box.pk =>
             \/ oracle_utxo[k].kind = "Collected"
             \/ oracle_utxo[k].box.epoch_counter > folded[i].pool_epoch
    /\ \A i \in DOMAIN folded : folded[i].pool_epoch < utxo[1].epoch_counter
    /\ \A k \in DOMAIN in_oracle_boxes :
          /\ in_oracle_boxes[k].epoch_counter = in_pool_box.epoch_counter
          /\ in_oracle_boxes[k] \notin FoldedBoxes
          /\ \A i \in DOMAIN folded : in_oracle_boxes[k].epoch_counter > folded[i].pool_epoch

\* C27: an oracle's box has been collected, published again and collected
\* again, while a box posted for the first refresh's epoch that it did not
\* collect is still unspent
C27_Witness ==
    /\ pc = "idle"
    /\ \E i, j \in DOMAIN folded :
          /\ folded[i].box.pk = folded[j].box.pk
          /\ folded[i].pool_epoch = PoolEpoch
          /\ folded[j].pool_epoch = PoolEpoch + 1
    /\ \E k \in DOMAIN oracle_utxo :
          /\ oracle_utxo[k].kind = "Posted"
          /\ oracle_utxo[k].box.epoch_counter = PoolEpoch
====
